---- MODULE Spec2Model ----
(***************************************************************************)
(* Object tracker, garbage collector and chunk client of the storage       *)
(* layer (src/server/pkg/storage/{tracker,chunk,renew}).                   *)
(*                                                                         *)
(* Strings are sequences of one-character strings, so that prefix tests    *)
(* (strings.HasPrefix, SQL LIKE) and id construction are computed.         *)
(* Every tracker method is one SQL statement or one transaction and is     *)
(* modelled as one atomic step.                                            *)
(***************************************************************************)
EXTENDS Integers, Sequences, FiniteSets, TLC

VARIABLES
    objects,    \* storage.tracker_objects: str_id -> [int_id, tombstone, expires_at]
    refs,       \* storage.tracker_refs: set of <<from_id, to_id>>
    seq,        \* next value of the BIGSERIAL sequence behind int_id
    now,        \* CURRENT_TIMESTAMP
    call,       \* the tracker call made by the last step: [op, id, pointsTo, ttl, ret, rows]
    blobs,      \* obj.Client: the keys that hold a blob
    mdstore,    \* MetadataStore: the chunk ids that have a metadata record
    clients,    \* chunk clients: name -> [pc, n, renewer, ret]
    gc,         \* the garbage collector: [pc, deleter, queue, cur, n]
    runCancelled,   \* the context passed to GarbageCollector.Run is cancelled
    rn,         \* a renew.Renewer, its background task and the callers of Close
    scope,      \* a call of a scoped helper (WithStringSet, WithRenewer, ...)
    index       \* an index writer, the tree it wrote and a reader's output

trackerVars == <<objects, refs, seq>>
sysVars == <<blobs, mdstore, clients, gc, runCancelled, rn, scope, index>>
sysVarsButIndex == <<blobs, mdstore, clients, gc, runCancelled, rn, scope>>
vars == <<objects, refs, seq, now, call, blobs, mdstore, clients, gc,
          runCancelled, rn, scope, index>>

----------------------------------------------------------------------------
(* Bounds of the model *)

MaxSeq == 3
MaxTime == 1

----------------------------------------------------------------------------
(* Strings *)

Range(s) == {s[i] : i \in DOMAIN s}

\* strings.HasPrefix(s, prefix)
HasPrefix(s, pre) ==
    /\ Len(pre) <= Len(s)
    /\ \A i \in 1..Len(pre) : s[i] = pre[i]

\* SQL: s LIKE p ('%' any substring, '_' any one character, '\' escapes)
RECURSIVE LikeMatch(_, _)
LikeMatch(s, p) ==
    IF p = <<>> THEN s = <<>>
    ELSE IF Head(p) = "%"
         THEN LikeMatch(s, Tail(p)) \/ (s # <<>> /\ LikeMatch(Tail(s), p))
    ELSE IF Head(p) = "\\" /\ Len(p) >= 2
         THEN s # <<>> /\ Head(s) = p[2] /\ LikeMatch(Tail(s), Tail(Tail(p)))
    ELSE /\ s # <<>>
         /\ (Head(p) = "_" \/ Head(p) = Head(s))
         /\ LikeMatch(Tail(s), Tail(p))

----------------------------------------------------------------------------
(* The tracker tables *)

\* expires_at TIMESTAMP (nullable): NULL is the SQL null
NULL == -1

Put(f, k, v) == [x \in (DOMAIN f) \cup {k} |-> IF x = k THEN v ELSE f[x]]
Drop(f, k) == [x \in (DOMAIN f) \ {k} |-> f[x]]

\* the database as a value: what a statement reads and what it leaves
DB == [objects |-> objects, refs |-> refs, seq |-> seq]

Result(objs, rfs, sq, ret) == [objects |-> objs, refs |-> rfs, seq |-> sq, ret |-> ret]

\* a statement that fails before it changes anything (lost connection,
\* cancelled context)
Failed(db) == Result(db.objects, db.refs, db.seq, "error")

\* rows of tracker_refs whose to_id is the int_id of the row named id
Inbound(db, id) ==
    {e \in db.refs : e[2] \in {db.objects[s].int_id : s \in {x \in DOMAIN db.objects : x = id}}}

\* a transaction that commits whatever its callback returns
withTxNoRollback(db, res, dbOK) ==
    IF ~dbOK THEN Failed(db) ELSE res

\* withTx: commit when the callback returns nil, roll back otherwise.  (An
\* int_id only has to be fresh: the gaps that conflicts and rollbacks leave
\* in the sequence are not modelled.)
withTx(db, res, dbOK) ==
    IF ~dbOK THEN Failed(db)
    ELSE IF res.ret # "nil"
         THEN Result(db.objects, db.refs, db.seq, res.ret)
    ELSE res

\* a callback that inserts the row and no edge
CreateObjectTxNoRefs(db, t, id, pointsTo, ttl) ==
    IF id \in DOMAIN db.objects
    THEN Result(db.objects, db.refs, db.seq, "ErrObjectExists")
    ELSE LET row == [int_id |-> db.seq, tombstone |-> FALSE,
                     expires_at |-> IF ttl > 0 THEN t + ttl ELSE NULL]
         IN  Result(Put(db.objects, id, row), db.refs, db.seq + 1,
                    IF Range(pointsTo) \subseteq DOMAIN db.objects /\ Len(pointsTo) <= 1
                    THEN "nil" ELSE "ErrDanglingRef")

\* the callback of CreateObject: INSERT ... ON CONFLICT DO NOTHING RETURNING
\* int_id, then INSERT INTO tracker_refs SELECT ... WHERE str_id = ANY($2)
CreateObjectTx(db, t, id, pointsTo, ttl) ==
    IF id \in DOMAIN db.objects
    THEN Result(db.objects, db.refs, db.seq, "ErrObjectExists")
    ELSE LET oid == db.seq
             row == [int_id |-> oid, tombstone |-> FALSE,
                     expires_at |-> IF ttl > 0 THEN t + ttl ELSE NULL]
             objs1 == Put(db.objects, id, row)
             pointsToInts == {objs1[s].int_id : s \in {x \in DOMAIN objs1 : x \in Range(pointsTo)}}
             refs1 == db.refs \cup {<<oid, x>> : x \in pointsToInts}
         IN  Result(objs1, refs1, db.seq + 1,
                    IF Cardinality(pointsToInts) # Len(pointsTo)
                    THEN "ErrDanglingRef" ELSE "nil")

\* CreateObject over a transaction that is never rolled back
CreateObjectNoRollback(db, t, id, pointsTo, ttl, dbOK) ==
    IF \E i \in DOMAIN pointsTo : pointsTo[i] = id
    THEN Result(db.objects, db.refs, db.seq, "ErrSelfReference")
    ELSE withTxNoRollback(db, CreateObjectTx(db, t, id, pointsTo, ttl), dbOK)

\* CreateObject: the ErrSelfReference check, then the transaction
CreateObject(db, t, id, pointsTo, ttl, dbOK) ==
    IF \E i \in DOMAIN pointsTo : pointsTo[i] = id
    THEN Result(db.objects, db.refs, db.seq, "ErrSelfReference")
    ELSE withTx(db, CreateObjectTx(db, t, id, pointsTo, ttl), dbOK)

\* UPDATE ... SET expires_at = now + ttl WHERE str_id LIKE $1 || '%'
\* RETURNING expires_at, read with GetContext (sql.ErrNoRows on no row)
SetTTLPrefix(db, t, pre, ttl, dbOK) ==
    LET hit == {s \in DOMAIN db.objects : LikeMatch(s, pre \o <<"%">>)}
    IN  IF ~dbOK THEN Failed(db)
        ELSE IF hit = {} THEN Result(db.objects, db.refs, db.seq, "sql.ErrNoRows")
        ELSE Result([s \in DOMAIN db.objects |->
                        IF s \in hit
                        THEN [db.objects[s] EXCEPT !.expires_at = t + ttl]
                        ELSE db.objects[s]],
                    db.refs, db.seq, "nil")

\* UPDATE ... SET tombstone = (CASE WHEN NOT EXISTS (inbound) THEN TRUE ELSE
\* FALSE END) WHERE str_id = $1 RETURNING tombstone
MarkTombstone(db, id, dbOK) ==
    IF ~dbOK THEN Failed(db)
    ELSE IF id \notin DOMAIN db.objects
         THEN Result(db.objects, db.refs, db.seq, "nil")
    ELSE LET tombstone == (Inbound(db, id) = {})
         IN  Result([db.objects EXCEPT ![id].tombstone = tombstone], db.refs, db.seq,
                    IF ~tombstone THEN "ErrDanglingRef" ELSE "nil")

\* the callback of FinishDelete: DELETE the row RETURNING tombstone, then
\* DELETE FROM tracker_refs WHERE from_id IN (SELECT int_id FROM
\* tracker_objects WHERE str_id = $1), which reads the table after the row
\* has been deleted
FinishDeleteTx(db, id) ==
    IF id \notin DOMAIN db.objects
    THEN Result(db.objects, db.refs, db.seq, "sql.ErrNoRows")
    ELSE LET tombstone == db.objects[id].tombstone
             objs1 == Drop(db.objects, id)
             fromIds == {objs1[s].int_id : s \in {x \in DOMAIN objs1 : x = id}}
         IN  IF ~tombstone
             THEN Result(objs1, db.refs, db.seq, "ErrNotTombstone")
             ELSE Result(objs1, {e \in db.refs : e[1] \notin fromIds}, db.seq, "nil")

\* FinishDelete returns nil whatever withTx returned
FinishDelete(db, id, dbOK) ==
    LET r == withTx(db, FinishDeleteTx(db, id), dbOK)
    IN  IF r.ret = "sql.ErrNoRows"
        THEN [r EXCEPT !.ret = "nil"]
        ELSE [r EXCEPT !.ret = "nil"]

\* a query that compares a null expires_at like a timestamp
IterateDeletableNullExpires(db, t) ==
    {s \in DOMAIN db.objects :
        /\ (db.objects[s].expires_at <= t \/ db.objects[s].tombstone)
        /\ db.objects[s].int_id \notin {e[2] : e \in db.refs}}

\* SELECT str_id WHERE (expires_at <= now OR tombstone) AND int_id NOT IN
\* (SELECT DISTINCT to_id FROM tracker_refs)
IterateDeletable(db, t) ==
    {s \in DOMAIN db.objects :
        /\ \/ (db.objects[s].expires_at # NULL /\ db.objects[s].expires_at <= t)
           \/ db.objects[s].tombstone
        /\ db.objects[s].int_id \notin {e[2] : e \in db.refs}}

----------------------------------------------------------------------------
(* renew.Renewer and renewing.VeryGenericRenewer right after construction *)

\* the goroutines that call Close
Closers == {"x", "y"}

\* NewRenewer: the context is live, done is open, err is nil and the
\* background task is about to call renewFunc for the first time
NewRenewer ==
    [pkg |-> "renew", pc |-> "loop", cancelled |-> FALSE, retErr |-> "nil",
     err |-> "nil", done |-> FALSE, failed |-> FALSE, ticks |-> 0,
     calls |-> 0, inflight |-> 0, results |-> {},
     close |-> [k \in Closers |-> [pc |-> "idle", ret |-> "-", afterFail |-> FALSE]]]

\* NewVeryGenericRenewer: the same, without the ctx field and without the
\* task's own cancel after renewLoop
NewVeryGenericRenewer == [NewRenewer EXCEPT !.pkg = "renewing"]

\* no renewer has been made
NoRenewer == [pc |-> "-"]

\* no scoped helper has been called
NoScope == [kind |-> "-"]

\* a scoped helper before its first step: its goroutines, the contexts, the
\* results and the FileOperationClient
NewScope ==
    [kind |-> "-", pc |-> "-", watch |-> "-", parent |-> FALSE, errCtx |-> FALSE,
     work |-> FALSE, ret |-> "-", egErr |-> "nil", focErr |-> "nil",
     stream |-> "none", closed |-> FALSE, sent |-> 0]

\* no index is being written or read
NoIndex == [pc |-> "-"]

\* an index before its first path: the paths written, the streams of the
\* levels, the root, and a reader's filter and output
NewIndex ==
    [pc |-> "-", paths |-> <<>>, levels |-> <<>>, root |-> <<>>,
     filter |-> [kind |-> "-", prefix |-> <<>>, lower |-> <<>>, upper |-> <<>>],
     out |-> <<>>]

----------------------------------------------------------------------------
(* Calls of the tracker by arbitrary callers *)

IdA == <<"a">>
IdT0 == <<"t", "/", "0">>

Ids == {IdA, IdT0}
Prefixes == {<<"t", "/">>, <<"a">>, <<"_">>, <<"b">>}
TTLs == {0, 1}
PointsTos == {<<>>, <<IdA>>, <<IdT0>>, <<IdA, IdA>>, <<IdA, IdT0>>}

Apply(op, id, pointsTo, ttl, r) ==
    /\ objects' = r.objects
    /\ refs' = r.refs
    /\ seq' = r.seq
    /\ call' = [op |-> op, id |-> id, pointsTo |-> pointsTo, ttl |-> ttl,
                ret |-> r.ret, rows |-> {}]

NoCall == [op |-> "-", id |-> <<>>, pointsTo |-> <<>>, ttl |-> 0, ret |-> "-", rows |-> {}]

\* a tracker call made by a client, a renewer or the collector
ApplySys(r) ==
    /\ objects' = r.objects
    /\ refs' = r.refs
    /\ seq' = r.seq
    /\ call' = NoCall

CallCreateObject(id, pointsTo, ttl, dbOK) ==
    /\ seq <= MaxSeq
    /\ Apply("CreateObject", id, pointsTo, ttl, CreateObject(DB, now, id, pointsTo, ttl, dbOK))
    /\ UNCHANGED <<now, sysVars>>

CallSetTTLPrefix(pre, ttl, dbOK) ==
    /\ Apply("SetTTLPrefix", pre, <<>>, ttl, SetTTLPrefix(DB, now, pre, ttl, dbOK))
    /\ UNCHANGED <<now, sysVars>>

CallMarkTombstone(id, dbOK) ==
    /\ Apply("MarkTombstone", id, <<>>, 0, MarkTombstone(DB, id, dbOK))
    /\ UNCHANGED <<now, sysVars>>

CallFinishDelete(id, dbOK) ==
    /\ Apply("FinishDelete", id, <<>>, 0, FinishDelete(DB, id, dbOK))
    /\ UNCHANGED <<now, sysVars>>

\* IterateDeletable with a callback that records the ids it is given
CallIterateDeletable(dbOK) ==
    /\ call' = [NoCall EXCEPT !.op = "IterateDeletable",
                              !.ret = IF dbOK THEN "nil" ELSE "error",
                              !.rows = IF dbOK THEN IterateDeletable(DB, now) ELSE {}]
    /\ UNCHANGED <<trackerVars, now, sysVars>>

\* the clock of the database advances
Tick ==
    /\ now < MaxTime
    /\ now' = now + 1
    /\ call' = NoCall
    /\ UNCHANGED <<trackerVars, sysVars>>

Init ==
    /\ objects = [x \in {} |-> 0]
    /\ refs = {}
    /\ seq = 1
    /\ now = 0
    /\ call = NoCall
    /\ blobs = {}
    /\ mdstore = {}
    /\ clients = [c \in {} |-> 0]
    /\ gc = [pc |-> "returned", deleter |-> "other", queue |-> {}, cur |-> <<>>, n |-> 0]
    /\ runCancelled = FALSE
    /\ rn = NoRenewer
    /\ scope = NoScope
    /\ index = NoIndex

Next ==
    \/ \E id \in Ids, p \in PointsTos, ttl \in TTLs, ok \in BOOLEAN :
          CallCreateObject(id, p, ttl, ok)
    \/ \E p \in Prefixes, ttl \in TTLs, ok \in BOOLEAN : CallSetTTLPrefix(p, ttl, ok)
    \/ \E id \in Ids, ok \in BOOLEAN : CallMarkTombstone(id, ok)
    \/ \E id \in Ids, ok \in BOOLEAN : CallFinishDelete(id, ok)
    \/ \E ok \in BOOLEAN : CallIterateDeletable(ok)
    \/ Tick

Spec == Init /\ [][Next]_vars

----------------------------------------------------------------------------
(* Chunk ids, tracker ids of chunks, blob keys *)

\* a chunk ID is the hash of the chunk's bytes: a sequence of bytes
ChunkA == <<161>>
ChunkB == <<178>>

HexDigits == <<"0", "1", "2", "3", "4", "5", "6", "7",
               "8", "9", "a", "b", "c", "d", "e", "f">>

\* ID.HexString: two lowercase hex digits per byte
RECURSIVE HexString(_)
HexString(id) ==
    IF id = <<>> THEN <<>>
    ELSE <<HexDigits[(Head(id) \div 16) + 1], HexDigits[(Head(id) % 16) + 1]>>
            \o HexString(Tail(id))

HexVal(c) == CHOOSE i \in 0..15 : HexDigits[i + 1] = c

\* ChunkIDFromHex: the bytes of a hex string, an error when it is not one
RECURSIVE HexBytes(_)
HexBytes(h) ==
    IF h = <<>> THEN <<>>
    ELSE <<16 * HexVal(h[1]) + HexVal(h[2])>> \o HexBytes(Tail(Tail(h)))

ChunkIDFromHex(h) ==
    IF Len(h) % 2 = 0 /\ \A i \in DOMAIN h : h[i] \in Range(HexDigits)
    THEN [ok |-> TRUE, id |-> HexBytes(h)]
    ELSE [ok |-> FALSE, id |-> <<>>]

\* const prefix = "chunks" of package chunk
prefix == <<"c", "h", "u", "n", "k", "s">>

\* path.Join of two clean elements
PathJoin(a, b) == a \o <<"/">> \o b

chunkPath(chunkID) == PathJoin(prefix, HexString(chunkID))

ChunkObjectID(chunkID) == <<"c", "h", "u", "n", "k", "/">> \o HexString(chunkID)

\* defaultChunkTTL (30 minutes): the unit of time of the model
defaultChunkTTL == 1

----------------------------------------------------------------------------
(* The deleters *)

StoreResult(b, m, ret) == [blobs |-> b, mdstore |-> m, ret |-> ret]

\* the prefix of the ids that ChunkObjectID produces
deleterPrefixFixed == <<"c", "h", "u", "n", "k", "/">>

\* const prefix = "chunks/" of deleter.Delete
deleterPrefix == <<"c", "h", "u", "n", "k", "s", "/">>

\* deleter.Delete of package chunk: the blob, then the metadata record
deleterDelete(b, m, id, objOK, mdOK) ==
    IF ~HasPrefix(id, deleterPrefix) THEN StoreResult(b, m, "error")
    ELSE LET parsed == ChunkIDFromHex(SubSeq(id, Len(deleterPrefix) + 1, Len(id)))
         IN  IF ~parsed.ok THEN StoreResult(b, m, "error")
             ELSE IF ~objOK THEN StoreResult(b, m, "error")
             ELSE IF ~mdOK THEN StoreResult(b \ {chunkPath(parsed.id)}, m, "error")
             ELSE StoreResult(b \ {chunkPath(parsed.id)}, m \ {parsed.id}, "nil")

\* the function behind the DeleterMux of the storage layer: the chunk deleter
\* for chunk objects, a deleter without external artifacts for the pinning
\* objects of renewers, none otherwise
muxDispatch(id) ==
    IF HasPrefix(id, <<"c", "h", "u", "n", "k", "/">>) THEN "chunk"
    ELSE IF HasPrefix(id, <<"t", "m", "p", "-">>) THEN "tmp"
    ELSE "nil"

\* DeleterMux.Delete
DeleterMuxDelete(b, m, id, objOK, mdOK) ==
    LET d == muxDispatch(id)
    IN  IF d = "nil" THEN StoreResult(b, m, "error")
        ELSE IF d = "chunk" THEN deleterDelete(b, m, id, objOK, mdOK)
        ELSE StoreResult(b, m, "nil")

\* gc.deleter.Delete: the deleter of chunk.Storage.NewDeleter, a DeleterMux
\* over it, or any other Deleter, which returns nil or an error and touches
\* neither store
Delete(deleter, b, m, id, ok) ==
    IF deleter = "chunk" THEN deleterDelete(b, m, id, ok, ok)
    ELSE IF deleter = "mux" THEN DeleterMuxDelete(b, m, id, ok, ok)
    ELSE StoreResult(b, m, IF ok THEN "nil" ELSE "error")

----------------------------------------------------------------------------
(* Bounds of the system model *)

MaxClock == 1

Clients == {"1", "2"}

----------------------------------------------------------------------------
(* The prefix renewer of a chunk client (track.Renewer over renew.Renewer) *)

Digits == <<"0", "1", "2", "3", "4", "5", "6", "7", "8", "9">>

\* fmt.Sprintf("%d", n)
RECURSIVE Itoa(_)
Itoa(n) == IF n < 10 THEN <<Digits[n + 1]>> ELSE Itoa(n \div 10) \o <<Digits[(n % 10) + 1]>>

\* "tmp-" + name + "-" + uuid.NewWithoutDashes(): every client of the model
\* is made with chunkSet "w" and draws its own uuid
RenewerID(c) == <<"t", "m", "p", "-", "w", "-", c>>

\* fmt.Sprintf("%s/%d", r.id, n)
PinID(c, n) == RenewerID(c) \o <<"/">> \o Itoa(n)

SetClient(c, r) == clients' = [clients EXCEPT ![c] = r]

\* renewFunc of track.NewRenewer: SetTTLPrefix(r.id + "/", ttl)
renewFunc(db, t, c, ok) == SetTTLPrefix(db, t, RenewerID(c) \o <<"/">>, defaultChunkTTL, ok)

\* renewLoop after a call of renewFunc: an error ends the loop
AfterRenew(cl, ret) ==
    IF ret = "nil" THEN [cl EXCEPT !.renewer = "running"]
    ELSE [cl EXCEPT !.renewer = "stopped"]

\* renewLoop calls renewFunc once before it waits for a tick
RenewFirst(c, ok) ==
    /\ clients[c].renewer = "new"
    /\ LET r == renewFunc(DB, now, c, ok)
       IN  /\ ApplySys(r)
           /\ SetClient(c, AfterRenew(clients[c], r.ret))
    /\ UNCHANGED <<now, blobs, mdstore, gc, runCancelled, rn, scope, index>>

\* the renewFunc calls of the running renewers in cs, one after the other
RECURSIVE RenewAll(_, _, _, _)
RenewAll(db, t, cs, oks) ==
    IF cs = {} THEN db
    ELSE LET c == CHOOSE x \in cs : TRUE
             r == renewFunc(db, t, c, oks[c])
         IN  RenewAll([objects |-> r.objects, refs |-> r.refs, seq |-> r.seq],
                      t, cs \ {c}, oks)

\* one unit of time passes.  The steps of the model happen at the instants
\* 0, 1, 2, ...; the ticker of every running renewer fires at each of them
\* (it also fires in between, every ttl / 3, and those calls leave nothing
\* that the call at the instant does not overwrite) and its renewLoop calls
\* renewFunc
SysTick(oks) ==
    /\ now < MaxClock
    /\ \A c \in DOMAIN clients : clients[c].renewer # "new"
    /\ now' = now + 1
    /\ LET running == {c \in DOMAIN clients : clients[c].renewer = "running"}
           db == RenewAll(DB, now + 1, running, oks)
       IN  /\ objects' = db.objects
           /\ refs' = db.refs
           /\ seq' = db.seq
           /\ clients' = [c \in DOMAIN clients |->
                            IF c \in running
                            THEN AfterRenew(clients[c], renewFunc(DB, now + 1, c, oks[c]).ret)
                            ELSE clients[c]]
    /\ call' = NoCall
    /\ UNCHANGED <<blobs, mdstore, gc, runCancelled, rn, scope, index>>

----------------------------------------------------------------------------
(* Client.Create, one step per call of the tracker or of a store.  Every
   client of the model calls Create once, for chunk A, and is then closed. *)

\* Create returns
Return(c, ret) == [clients[c] EXCEPT !.pc = "done", !.ret = ret]

\* tracker.CreateObject(chunkOID, pointsTo, ttl); ErrObjectExists is accepted
ClientCreateObject(c, md, ok) ==
    /\ clients[c].pc = "idle"
    /\ LET pointsTo == [i \in DOMAIN md |-> ChunkObjectID(md[i])]
           r == CreateObject(DB, now, ChunkObjectID(ChunkA), pointsTo, defaultChunkTTL, ok)
           cl == clients[c]
       IN  /\ ApplySys(r)
           /\ SetClient(c, IF r.ret \in {"nil", "ErrObjectExists"}
                           THEN [cl EXCEPT !.pc = "Add"]
                           ELSE [cl EXCEPT !.pc = "done", !.ret = "error"])
    /\ UNCHANGED <<now, blobs, mdstore, gc, runCancelled, rn, scope, index>>

\* a Create that goes on to the blob store whatever renewer.Add returned
ClientAddUnchecked(c, ok) ==
    /\ clients[c].pc = "Add"
    /\ LET n == clients[c].n
           r == CreateObject(DB, now, PinID(c, n), <<ChunkObjectID(ChunkA)>>, defaultChunkTTL, ok)
           cl == [clients[c] EXCEPT !.n = n + 1]
       IN  /\ ApplySys(r)
           /\ SetClient(c, [cl EXCEPT !.pc = "Exists"])
    /\ UNCHANGED <<now, blobs, mdstore, gc, runCancelled, rn, scope, index>>

\* renewer.Add(chunkOID): nextInt, then CreateObject of the pinning object
ClientAdd(c, ok) ==
    /\ clients[c].pc = "Add"
    /\ LET n == clients[c].n
           r == CreateObject(DB, now, PinID(c, n), <<ChunkObjectID(ChunkA)>>, defaultChunkTTL, ok)
           cl == [clients[c] EXCEPT !.n = n + 1]
       IN  /\ ApplySys(r)
           /\ SetClient(c, IF r.ret = "nil"
                           THEN [cl EXCEPT !.pc = "Exists"]
                           ELSE [cl EXCEPT !.pc = "done", !.ret = "error"])
    /\ UNCHANGED <<now, blobs, mdstore, gc, runCancelled, rn, scope, index>>

\* a Create without the check of the blob store
ClientExistsNoReturn(c) ==
    /\ clients[c].pc = "Exists"
    /\ SetClient(c, [clients[c] EXCEPT !.pc = "Set"])
    /\ call' = NoCall
    /\ UNCHANGED <<trackerVars, now, blobs, mdstore, gc, runCancelled, rn, scope, index>>

\* objc.Exists(chunkPath): the chunk is returned when the blob is there
ClientExists(c) ==
    /\ clients[c].pc = "Exists"
    /\ SetClient(c, IF chunkPath(ChunkA) \in blobs
                    THEN Return(c, "ok")
                    ELSE [clients[c] EXCEPT !.pc = "Set"])
    /\ call' = NoCall
    /\ UNCHANGED <<trackerVars, now, blobs, mdstore, gc, runCancelled, rn, scope, index>>

\* mdstore.Set(chunkID, md)
ClientSet(c, ok) ==
    /\ clients[c].pc = "Set"
    /\ mdstore' = IF ok THEN mdstore \cup {ChunkA} ELSE mdstore
    /\ SetClient(c, IF ok THEN [clients[c] EXCEPT !.pc = "Write"] ELSE Return(c, "error"))
    /\ call' = NoCall
    /\ UNCHANGED <<trackerVars, now, blobs, gc, runCancelled, rn, scope, index>>

\* objc.Writer, Write, Close: the blob is at its key once Close has returned
ClientWrite(c, ok) ==
    /\ clients[c].pc = "Write"
    /\ blobs' = IF ok THEN blobs \cup {chunkPath(ChunkA)} ELSE blobs
    /\ SetClient(c, IF ok THEN Return(c, "ok") ELSE Return(c, "error"))
    /\ call' = NoCall
    /\ UNCHANGED <<trackerVars, now, mdstore, gc, runCancelled, rn, scope, index>>

\* Client.Close: Renewer.Close cancels the renewal and waits for its task
ClientClose(c) ==
    /\ clients[c].pc \in {"idle", "done"}
    /\ SetClient(c, [clients[c] EXCEPT !.pc = "closed", !.renewer = "closed"])
    /\ call' = NoCall
    /\ UNCHANGED <<trackerVars, now, blobs, mdstore, gc, runCancelled, rn, scope, index>>

----------------------------------------------------------------------------
(* GarbageCollector.Run, one step per call of the tracker or of the deleter *)

\* the sweep's context is derived from the context passed to Run
GCContextOK(ok) == ok /\ ~runCancelled

\* runOnce: the query of IterateDeletable; its rows are then visited one by
\* one.  An error ends runUntilEmpty and is logged by Run.
GCRunOnce(ok) ==
    /\ gc.pc = "runOnce"
    /\ gc' = IF GCContextOK(ok)
             THEN [gc EXCEPT !.pc = "iterate", !.queue = IterateDeletable(DB, now), !.n = 0]
             ELSE [gc EXCEPT !.pc = "select"]
    /\ call' = NoCall
    /\ UNCHANGED <<trackerVars, now, blobs, mdstore, clients, runCancelled, rn, scope, index>>

\* a deleteObject that goes on to the deleter whatever MarkTombstone returned
GCMarkTombstoneUnchecked(id, ok) ==
    /\ gc.pc = "iterate"
    /\ id \in gc.queue
    /\ LET r == MarkTombstone(DB, id, GCContextOK(ok))
       IN  /\ ApplySys(r)
           /\ gc' = [gc EXCEPT !.queue = @ \ {id}, !.cur = id, !.pc = "Delete"]
    /\ UNCHANGED <<now, blobs, mdstore, clients, runCancelled, rn, scope, index>>

\* deleteObject(id) for the next row: MarkTombstone
GCMarkTombstone(id, ok) ==
    /\ gc.pc = "iterate"
    /\ id \in gc.queue
    /\ LET r == MarkTombstone(DB, id, GCContextOK(ok))
       IN  /\ ApplySys(r)
           /\ gc' = [gc EXCEPT !.queue = @ \ {id}, !.cur = id,
                               !.pc = IF r.ret = "nil" THEN "Delete" ELSE "iterate"]
    /\ UNCHANGED <<now, blobs, mdstore, clients, runCancelled, rn, scope, index>>

\* deleteObject: gc.deleter.Delete
GCDelete(ok) ==
    /\ gc.pc = "Delete"
    /\ LET r == Delete(gc.deleter, blobs, mdstore, gc.cur, ok)
       IN  /\ blobs' = r.blobs
           /\ mdstore' = r.mdstore
           /\ gc' = [gc EXCEPT !.pc = IF r.ret = "nil" THEN "FinishDelete" ELSE "iterate"]
    /\ call' = NoCall
    /\ UNCHANGED <<trackerVars, now, clients, runCancelled, rn, scope, index>>

\* deleteObject: FinishDelete, and n++ in runOnce when deleteObject returned nil
GCFinishDelete(ok) ==
    /\ gc.pc = "FinishDelete"
    /\ LET r == FinishDelete(DB, gc.cur, GCContextOK(ok))
       IN  /\ ApplySys(r)
           /\ gc' = [gc EXCEPT !.pc = "iterate", !.n = IF r.ret = "nil" THEN @ + 1 ELSE @]
    /\ UNCHANGED <<now, blobs, mdstore, clients, runCancelled, rn, scope, index>>

\* the rows are exhausted: runUntilEmpty goes on while runOnce deleted something
GCEndPass ==
    /\ gc.pc = "iterate"
    /\ gc.queue = {}
    /\ gc' = [gc EXCEPT !.pc = IF gc.n = 0 THEN "select" ELSE "runOnce"]
    /\ call' = NoCall
    /\ UNCHANGED <<trackerVars, now, blobs, mdstore, clients, runCancelled, rn, scope, index>>

\* select, case <-ctx.Done(): ctx is the sweep's context, which cf() has
\* cancelled before the select, so the case is always ready
GCSelectDone ==
    /\ gc.pc = "select"
    /\ gc' = [gc EXCEPT !.pc = "returned"]
    /\ call' = NoCall
    /\ UNCHANGED <<trackerVars, now, blobs, mdstore, clients, runCancelled, rn, scope, index>>

\* select, case <-ticker.C: ready when a tick of the period has arrived since
\* the last receive, which a sweep may or may not have outlasted
GCSelectTick ==
    /\ gc.pc = "select"
    /\ gc' = [gc EXCEPT !.pc = "runOnce"]
    /\ call' = NoCall
    /\ UNCHANGED <<trackerVars, now, blobs, mdstore, clients, runCancelled, rn, scope, index>>

\* the caller of Run cancels the context it passed
CancelRun ==
    /\ gc.pc # "returned"
    /\ ~runCancelled
    /\ runCancelled' = TRUE
    /\ call' = NoCall
    /\ UNCHANGED <<trackerVars, now, blobs, mdstore, clients, gc, rn, scope, index>>

----------------------------------------------------------------------------
(* The storage layer: chunk clients, their renewers and one collector *)

Deleters == {"chunk", "other"}

SysInit ==
    /\ objects = [x \in {} |-> 0]
    /\ refs = {}
    /\ seq = 1
    /\ now = 0
    /\ call = NoCall
    /\ blobs = {}
    /\ mdstore = {}
    /\ clients = [c \in Clients |->
                    [pc |-> "idle", n |-> 0, renewer |-> "new", ret |-> "-"]]
    /\ gc \in {[pc |-> "runOnce", deleter |-> d, queue |-> {}, cur |-> <<>>, n |-> 0] :
                  d \in Deleters}
    /\ runCancelled = FALSE
    /\ rn = NoRenewer
    /\ scope = NoScope
    /\ index = NoIndex

MDs == {<<>>, <<ChunkB>>}

ClientNext ==
    \/ \E c \in Clients, md \in MDs, ok \in BOOLEAN : ClientCreateObject(c, md, ok)
    \/ \E c \in Clients, ok \in BOOLEAN : ClientAdd(c, ok)
    \/ \E c \in Clients : ClientExists(c)
    \/ \E c \in Clients, ok \in BOOLEAN : ClientSet(c, ok)
    \/ \E c \in Clients, ok \in BOOLEAN : ClientWrite(c, ok)
    \/ \E c \in Clients : ClientClose(c)

RenewNext == \E c \in Clients, ok \in BOOLEAN : RenewFirst(c, ok)

GCNext ==
    \/ \E ok \in BOOLEAN : GCRunOnce(ok)
    \/ \E id \in gc.queue, ok \in BOOLEAN : GCMarkTombstone(id, ok)
    \/ \E ok \in BOOLEAN : GCDelete(ok)
    \/ \E ok \in BOOLEAN : GCFinishDelete(ok)
    \/ GCEndPass
    \/ GCSelectDone
    \/ GCSelectTick

SysNext ==
    \/ ClientNext
    \/ RenewNext
    \/ GCNext
    \/ CancelRun
    \/ \E oks \in [Clients -> BOOLEAN] : SysTick(oks)

SysSpec == SysInit /\ [][SysNext]_vars

----------------------------------------------------------------------------
(* The storage layer with an available tracker and blob store: the collector
   runs with the DeleterMux of the storage layer, its context is never
   cancelled and none of its calls fails; it takes every step it can take *)

ReclaimInit ==
    /\ objects = [x \in {} |-> 0]
    /\ refs = {}
    /\ seq = 1
    /\ now = 0
    /\ call = NoCall
    /\ blobs = {}
    /\ mdstore = {}
    /\ clients = [c \in Clients |->
                    [pc |-> "idle", n |-> 0, renewer |-> "new", ret |-> "-"]]
    /\ gc = [pc |-> "runOnce", deleter |-> "mux", queue |-> {}, cur |-> <<>>, n |-> 0]
    /\ runCancelled = FALSE
    /\ rn = NoRenewer
    /\ scope = NoScope
    /\ index = NoIndex

GCAvailableNext ==
    \/ GCRunOnce(TRUE)
    \/ \E id \in gc.queue : GCMarkTombstone(id, TRUE)
    \/ GCDelete(TRUE)
    \/ GCFinishDelete(TRUE)
    \/ GCEndPass
    \/ GCSelectDone
    \/ GCSelectTick

ReclaimNext ==
    \/ ClientNext
    \/ RenewNext
    \/ GCAvailableNext
    \/ \E oks \in [Clients -> BOOLEAN] : SysTick(oks)

ReclaimSpec == ReclaimInit /\ [][ReclaimNext]_vars /\ WF_vars(GCAvailableNext)

----------------------------------------------------------------------------
(* Chunk clients and callers of the chunk deleter on one blob store and one
   metadata store: deleter.Delete, one step per call of a store *)

\* the deleter of chunk.Storage.NewDeleter with no Delete call in progress
NewDeleter == [pc |-> "idle", deleter |-> "chunk", id |-> <<>>, chunkID |-> <<>>, ret |-> "-"]

\* ids given to Delete: the tracker id of chunk A, the same hex string after
\* "chunks/", and a string after "chunks/" that is not a hex string
DeleteIds ==
    {ChunkObjectID(ChunkA), deleterPrefix \o HexString(ChunkA), deleterPrefix \o <<"a">>}

\* Delete(ctx, id): the prefix check and ChunkIDFromHex
DeleterParse(id) ==
    IF ~HasPrefix(id, deleterPrefix) THEN [ok |-> FALSE, id |-> <<>>]
    ELSE ChunkIDFromHex(SubSeq(id, Len(deleterPrefix) + 1, Len(id)))

\* Delete is called: it returns an error for an id it cannot parse
DeleterCall(id) ==
    /\ gc.pc \in {"idle", "returned"}
    /\ LET parsed == DeleterParse(id)
       IN  gc' = IF parsed.ok
                 THEN [NewDeleter EXCEPT !.pc = "objc.Delete", !.id = id, !.chunkID = parsed.id]
                 ELSE [NewDeleter EXCEPT !.pc = "returned", !.id = id, !.ret = "error"]
    /\ call' = NoCall
    /\ UNCHANGED <<trackerVars, now, blobs, mdstore, clients, runCancelled, rn, scope, index>>

\* d.objc.Delete(ctx, chunkPath(chunkID)): an error is returned
DeleterObjDelete(ok) ==
    /\ gc.pc = "objc.Delete"
    /\ blobs' = IF ok THEN blobs \ {chunkPath(gc.chunkID)} ELSE blobs
    /\ gc' = IF ok THEN [gc EXCEPT !.pc = "mdstore.Delete"]
                   ELSE [gc EXCEPT !.pc = "returned", !.ret = "error"]
    /\ call' = NoCall
    /\ UNCHANGED <<trackerVars, now, mdstore, clients, runCancelled, rn, scope, index>>

\* return d.mdstore.Delete(ctx, chunkID)
DeleterMdDelete(ok) ==
    /\ gc.pc = "mdstore.Delete"
    /\ mdstore' = IF ok THEN mdstore \ {gc.chunkID} ELSE mdstore
    /\ gc' = [gc EXCEPT !.pc = "returned", !.ret = IF ok THEN "nil" ELSE "error"]
    /\ call' = NoCall
    /\ UNCHANGED <<trackerVars, now, blobs, clients, runCancelled, rn, scope, index>>

DeleterInit ==
    /\ objects = [x \in {} |-> 0]
    /\ refs = {}
    /\ seq = 1
    /\ now = 0
    /\ call = NoCall
    /\ blobs = {}
    /\ mdstore = {}
    /\ clients = [c \in Clients |->
                    [pc |-> "idle", n |-> 0, renewer |-> "new", ret |-> "-"]]
    /\ gc = NewDeleter
    /\ runCancelled = FALSE
    /\ rn = NoRenewer
    /\ scope = NoScope
    /\ index = NoIndex

DeleterNext ==
    \/ ClientNext
    \/ \E id \in DeleteIds : DeleterCall(id)
    \/ \E ok \in BOOLEAN : DeleterObjDelete(ok)
    \/ \E ok \in BOOLEAN : DeleterMdDelete(ok)

DeleterSpec == DeleterInit /\ [][DeleterNext]_vars

----------------------------------------------------------------------------
(* The generic renewer: the background task and the callers of Close *)

\* ticks of the task's ticker that the model follows
MaxTicks == 2

\* what a renewFunc call can return: nil, an error that is not a
\* cancellation (the ttl/3 deadline included), or the cancellation of its
\* context, which only a cancelled context produces
RenewResults(r) == {"nil", "error"} \cup (IF r.cancelled THEN {"Canceled"} ELSE {})

\* <-r.done without the wait
DoneIgnored(r) == TRUE

\* <-r.done: blocks until the task has closed the channel
DoneClosed(r) == r.done

\* renewLoop: the loop calls renewFunc
RenewCall ==
    /\ rn.pc = "loop"
    /\ rn' = [rn EXCEPT !.pc = "inCall", !.calls = @ + 1, !.inflight = @ + 1]
    /\ UNCHANGED <<trackerVars, now, call, blobs, mdstore, clients, gc, runCancelled, scope, index>>

\* renewLoop after renewFunc has returned res: nil leads to the select, an
\* error is returned
AfterRenewFunc(r, res) ==
    IF res = "nil"
    THEN [r EXCEPT !.pc = "select", !.inflight = @ - 1]
    ELSE [r EXCEPT !.pc = "defer", !.retErr = res, !.inflight = @ - 1,
                   !.failed = (res = "error")]

\* renewLoop: renewFunc returns; an error leaves the loop through the
\* deferred function
RenewReturn(res) ==
    /\ rn.pc = "inCall"
    /\ res \in RenewResults(rn)
    /\ rn' = AfterRenewFunc(rn, res)
    /\ UNCHANGED <<trackerVars, now, call, blobs, mdstore, clients, gc, runCancelled, scope, index>>

\* a tick that is consumed without going round the loop
AfterTickNoCall(r) == [r EXCEPT !.ticks = @ + 1]

\* renewLoop: the ticker case has no body, the for loop starts over
AfterTick(r) == [r EXCEPT !.pc = "loop", !.ticks = @ + 1]

\* renewLoop: select takes the ticker
RenewSelectTick ==
    /\ rn.pc = "select"
    /\ rn.ticks < MaxTicks
    /\ rn' = AfterTick(rn)
    /\ UNCHANGED <<trackerVars, now, call, blobs, mdstore, clients, gc, runCancelled, scope, index>>

\* renewLoop: select takes ctx.Done() and returns ctx.Err()
RenewSelectDone ==
    /\ rn.pc = "select"
    /\ rn.cancelled
    /\ rn' = [rn EXCEPT !.pc = "defer", !.retErr = "Canceled"]
    /\ UNCHANGED <<trackerVars, now, call, blobs, mdstore, clients, gc, runCancelled, scope, index>>

\* a task that ends without r.cancel()
RenewExitNoCancel ==
    /\ rn.pc = "defer"
    /\ rn' = [rn EXCEPT !.pc = "exited",
                        !.err = IF rn.cancelled THEN "nil" ELSE rn.retErr,
                        !.done = TRUE]
    /\ UNCHANGED <<trackerVars, now, call, blobs, mdstore, clients, gc, runCancelled, scope, index>>

\* renewLoop's deferred function, then the rest of the task: r.err is set,
\* the context is cancelled (package renew only) and done is closed
RenewExit ==
    /\ rn.pc = "defer"
    /\ rn' = [rn EXCEPT !.pc = "exited",
                        !.err = IF rn.cancelled THEN "nil" ELSE rn.retErr,
                        !.cancelled = IF rn.pkg = "renew" THEN TRUE ELSE @,
                        !.done = TRUE]
    /\ UNCHANGED <<trackerVars, now, call, blobs, mdstore, clients, gc, runCancelled, scope, index>>

\* the renewer after caller k's r.cancel()
CloseCancelled(r, k) ==
    [r EXCEPT !.cancelled = TRUE,
              !.close[k] = [pc |-> "waiting", ret |-> "-", afterFail |-> r.failed]]

\* the renewer after caller k's Close has returned r.err
CloseReturned(r, k) ==
    [r EXCEPT !.close[k].pc = "returned", !.close[k].ret = r.err,
              !.results = @ \cup {r.err}]

\* Close: r.cancel(); the call may be a caller's first or a later one
CloseCancel(k) ==
    /\ rn.close[k].pc \in {"idle", "returned"}
    /\ rn' = CloseCancelled(rn, k)
    /\ UNCHANGED <<trackerVars, now, call, blobs, mdstore, clients, gc, runCancelled, scope, index>>

\* Close: <-r.done; return r.err
CloseReturn(k) ==
    /\ rn.close[k].pc = "waiting"
    /\ DoneClosed(rn)
    /\ rn' = CloseReturned(rn, k)
    /\ UNCHANGED <<trackerVars, now, call, blobs, mdstore, clients, gc, runCancelled, scope, index>>

RenewerInit ==
    /\ objects = [x \in {} |-> 0]
    /\ refs = {}
    /\ seq = 1
    /\ now = 0
    /\ call = NoCall
    /\ blobs = {}
    /\ mdstore = {}
    /\ clients = [c \in {} |-> 0]
    /\ gc = [pc |-> "returned", deleter |-> "other", queue |-> {}, cur |-> <<>>, n |-> 0]
    /\ runCancelled = FALSE
    /\ rn \in {NewRenewer, NewVeryGenericRenewer}
    /\ scope = NoScope
    /\ index = NoIndex

RenewTaskNext ==
    \/ RenewCall
    \/ \E res \in {"nil", "error", "Canceled"} : RenewReturn(res)
    \/ RenewSelectTick
    \/ RenewSelectDone
    \/ RenewExit

RenewerNext ==
    \/ RenewTaskNext
    \/ \E k \in Closers : CloseCancel(k)
    \/ \E k \in Closers : CloseReturn(k)

\* the task's steps and a Close past its wait are always taken in the end;
\* select chooses among its ready cases at random, so a case that is ready
\* again and again is taken
RenewerSpec ==
    /\ RenewerInit
    /\ [][RenewerNext]_vars
    /\ WF_vars(RenewCall)
    /\ WF_vars(\E res \in {"nil", "error", "Canceled"} : RenewReturn(res))
    /\ SF_vars(RenewSelectDone)
    /\ WF_vars(RenewExit)
    /\ \A k \in Closers : WF_vars(CloseReturn(k))

----------------------------------------------------------------------------
(* renew.WithStringSet: the caller's goroutine, which runs the callback and
   closes the StringSet, the goroutine that watches the parent context, and
   the renewal task of the StringSet's Renewer.  The caller's goroutine
   closes as "x", the watching goroutine as "y". *)

scopeVars == <<trackerVars, now, call, blobs, mdstore, clients, gc, runCancelled, index>>

\* WithStringSet after NewStringSet and the go statement: the callback runs
WithStringSet == [NewScope EXCEPT !.kind = "WithStringSet", !.pc = "cb", !.watch = "select"]

\* the context handed to the callback is cancelled: ss.Context() is the
\* Renewer's own context
StringSetContextDone == rn.cancelled

\* the parent context is cancelled
ParentCancel ==
    /\ scope.kind \in {"WithStringSet", "WithRenewer"}
    /\ ~scope.parent
    /\ scope.pc # "returned"
    /\ scope' = [scope EXCEPT !.parent = TRUE,
                              !.errCtx = @ \/ scope.kind = "WithRenewer"]
    /\ UNCHANGED <<scopeVars, rn>>

\* the callback uses the set: ss.Add or ss.Remove
StringSetCallbackWork ==
    /\ scope.kind = "WithStringSet"
    /\ scope.pc = "cb"
    /\ scope' = [scope EXCEPT !.work = ~@]
    /\ UNCHANGED <<scopeVars, rn>>

\* a WithStringSet that returns the callback's error without closing
StringSetAfterCallbackNoDefer(sc, err) ==
    IF err = "nil"
    THEN [sc EXCEPT !.pc = "retClose"]
    ELSE [sc EXCEPT !.pc = "returned", !.ret = err]

\* cb has returned: an error is WithStringSet's result and leaves the
\* deferred Close to run, nil leads to "return ss.Close()"
StringSetAfterCallback(sc, err) ==
    IF err = "nil"
    THEN [sc EXCEPT !.pc = "retClose"]
    ELSE [sc EXCEPT !.pc = "deferClose", !.ret = err]

\* cb returns
StringSetCallbackReturns(err) ==
    /\ scope.kind = "WithStringSet"
    /\ scope.pc = "cb"
    /\ scope' = StringSetAfterCallback(scope, err)
    /\ UNCHANGED <<scopeVars, rn>>

\* ss.Close() of the return statement, and then the deferred one: r.cancel()
StringSetCloseCancel ==
    /\ scope.kind = "WithStringSet"
    /\ scope.pc \in {"retClose", "deferClose"}
    /\ rn' = CloseCancelled(rn, "x")
    /\ scope' = [scope EXCEPT !.pc = IF scope.pc = "retClose" THEN "retWait" ELSE "deferWait"]
    /\ UNCHANGED scopeVars

\* ss.Close(): <-r.done; return r.err.  The result of the return statement's
\* Close is WithStringSet's result, that of the deferred Close is dropped.
StringSetCloseReturn ==
    /\ scope.kind = "WithStringSet"
    /\ scope.pc \in {"retWait", "deferWait"}
    /\ DoneClosed(rn)
    /\ rn' = CloseReturned(rn, "x")
    /\ scope' = IF scope.pc = "retWait"
                THEN [scope EXCEPT !.pc = "deferClose", !.ret = rn.err]
                ELSE [scope EXCEPT !.pc = "returned"]
    /\ UNCHANGED scopeVars

\* the watching goroutine's select: case <-ctx.Done()
StringSetWatchParent ==
    /\ scope.kind = "WithStringSet"
    /\ scope.watch = "select"
    /\ scope.parent
    /\ scope' = [scope EXCEPT !.watch = "close"]
    /\ UNCHANGED <<scopeVars, rn>>

\* the watching goroutine's select: case <-ss.Context().Done()
StringSetWatchContext ==
    /\ scope.kind = "WithStringSet"
    /\ scope.watch = "select"
    /\ StringSetContextDone
    /\ scope' = [scope EXCEPT !.watch = "exit"]
    /\ UNCHANGED <<scopeVars, rn>>

\* the watching goroutine's ss.Close(): r.cancel()
StringSetWatchCloseCancel ==
    /\ scope.kind = "WithStringSet"
    /\ scope.watch = "close"
    /\ rn' = CloseCancelled(rn, "y")
    /\ scope' = [scope EXCEPT !.watch = "wait"]
    /\ UNCHANGED scopeVars

\* the watching goroutine's ss.Close(): <-r.done; return r.err
StringSetWatchCloseReturn ==
    /\ scope.kind = "WithStringSet"
    /\ scope.watch = "wait"
    /\ DoneClosed(rn)
    /\ rn' = CloseReturned(rn, "y")
    /\ scope' = [scope EXCEPT !.watch = "exit"]
    /\ UNCHANGED scopeVars

WithStringSetNext ==
    \/ StringSetCallbackWork
    \/ \E err \in {"nil", "error"} : StringSetCallbackReturns(err)
    \/ StringSetCloseCancel
    \/ StringSetCloseReturn
    \/ StringSetWatchParent
    \/ StringSetWatchContext
    \/ StringSetWatchCloseCancel
    \/ StringSetWatchCloseReturn

\* the goroutines of WithStringSet that are always taken in the end; the
\* callback is not obliged to return
WithStringSetFair ==
    /\ WF_vars(StringSetCallbackWork)
    /\ WF_vars(StringSetCloseCancel)
    /\ WF_vars(StringSetCloseReturn)
    /\ SF_vars(StringSetWatchParent)
    /\ WF_vars(StringSetWatchCloseCancel)
    /\ WF_vars(StringSetWatchCloseReturn)

----------------------------------------------------------------------------
(* fileset.WithRenewer: the errgroup's two goroutines, Renewer.run and the
   callback, and the renewal task of the VeryGenericRenewer.  cancelCtx is
   derived from the parent context and errCtx from cancelCtx; errCtx is
   also cancelled when a goroutine of the group returns an error.  run
   closes as "y". *)

\* WithRenewer after newRenewer and the two eg.Go: the callback runs and run
\* waits for errCtx
WithRenewer == [NewScope EXCEPT !.kind = "WithRenewer", !.pc = "cb", !.watch = "select"]

\* errgroup: the first error of a goroutine is kept and cancels errCtx
egReturn(sc, err) ==
    IF err # "nil" /\ sc.egErr = "nil"
    THEN [sc EXCEPT !.egErr = err, !.errCtx = TRUE]
    ELSE sc

\* the callback uses the renewer: r.Add or r.Remove
RenewerCallbackWork ==
    /\ scope.kind = "WithRenewer"
    /\ scope.pc = "cb"
    /\ scope' = [scope EXCEPT !.work = ~@]
    /\ UNCHANGED <<scopeVars, rn>>

\* cb returns and the deferred cf() cancels cancelCtx, and errCtx with it
RenewerCallbackReturns(err) ==
    /\ scope.kind = "WithRenewer"
    /\ scope.pc = "cb"
    /\ scope' = [egReturn(scope, err) EXCEPT !.pc = "cbDone", !.errCtx = TRUE]
    /\ UNCHANGED <<scopeVars, rn>>

\* Renewer.run: <-ctx.Done()
RenewerRunDone ==
    /\ scope.kind = "WithRenewer"
    /\ scope.watch = "select"
    /\ scope.errCtx
    /\ scope' = [scope EXCEPT !.watch = "close"]
    /\ UNCHANGED <<scopeVars, rn>>

\* Renewer.run: r.r.Close(), its r.cancel()
RenewerRunCloseCancel ==
    /\ scope.kind = "WithRenewer"
    /\ scope.watch = "close"
    /\ rn' = CloseCancelled(rn, "y")
    /\ scope' = [scope EXCEPT !.watch = "wait"]
    /\ UNCHANGED scopeVars

\* Renewer.run: r.r.Close(), its <-r.done; run returns r.err to the group
RenewerRunCloseReturn ==
    /\ scope.kind = "WithRenewer"
    /\ scope.watch = "wait"
    /\ DoneClosed(rn)
    /\ rn' = CloseReturned(rn, "y")
    /\ scope' = [egReturn(scope, rn.err) EXCEPT !.watch = "exit"]
    /\ UNCHANGED scopeVars

\* eg.Wait(): both goroutines have returned
RenewerWait ==
    /\ scope.kind = "WithRenewer"
    /\ scope.pc = "cbDone"
    /\ scope.watch = "exit"
    /\ scope' = [scope EXCEPT !.pc = "returned", !.ret = scope.egErr]
    /\ UNCHANGED <<scopeVars, rn>>

WithRenewerNext ==
    \/ RenewerCallbackWork
    \/ \E err \in {"nil", "error"} : RenewerCallbackReturns(err)
    \/ RenewerRunDone
    \/ RenewerRunCloseCancel
    \/ RenewerRunCloseReturn
    \/ RenewerWait

WithRenewerFair ==
    /\ WF_vars(RenewerCallbackWork)
    /\ WF_vars(RenewerRunDone)
    /\ WF_vars(RenewerRunCloseCancel)
    /\ WF_vars(RenewerRunCloseReturn)
    /\ WF_vars(RenewerWait)

----------------------------------------------------------------------------
(* APIClient.WithFileOperationClientV2 *)

\* file operations of the callback that the model follows
MaxOps == 3

\* WithFileOperationClientV2 is entered
WithFileOperationClientV2 == [NewScope EXCEPT !.kind = "WithFileOperationClientV2", !.pc = "new"]

\* maybeError(f): a FileOperationClient that has failed returns its error
\* without running f; otherwise f runs, with result res and effect done, and
\* an error is kept in foc.err
maybeError(sc, res, done) ==
    IF sc.focErr # "nil" THEN [sc |-> sc, ret |-> sc.focErr]
    ELSE [sc |-> [done EXCEPT !.focErr = res], ret |-> res]

\* NewFileOperationClientV2: the stream is opened and the commit is sent
FileOperationNew(ok) ==
    /\ scope.kind = "WithFileOperationClientV2"
    /\ scope.pc = "new"
    /\ scope' = IF ok THEN [scope EXCEPT !.pc = "cb", !.stream = "open"]
                ELSE [scope EXCEPT !.pc = "returned", !.ret = "error"]
    /\ UNCHANGED <<scopeVars, rn>>

\* the callback calls PutTar or DeleteFiles
FileOperationCallbackOp(ok) ==
    /\ scope.kind = "WithFileOperationClientV2"
    /\ scope.pc = "cb"
    /\ scope.sent < MaxOps
    /\ scope' = maybeError(scope, IF ok THEN "nil" ELSE "error",
                           IF ok THEN [scope EXCEPT !.sent = @ + 1] ELSE scope).sc
    /\ UNCHANGED <<scopeVars, rn>>

\* return cb(foc)
FileOperationCallbackReturns(err) ==
    /\ scope.kind = "WithFileOperationClientV2"
    /\ scope.pc = "cb"
    /\ scope' = [scope EXCEPT !.pc = "defer", !.ret = err]
    /\ UNCHANGED <<scopeVars, rn>>

\* foc.Close(): CloseAndRecv under maybeError
focClose(sc, ok) ==
    maybeError([sc EXCEPT !.closed = TRUE], IF ok THEN "nil" ELSE "error",
               [sc EXCEPT !.closed = TRUE, !.stream = "closed"])

\* the deferred function: if retErr == nil { retErr = foc.Close() }
FileOperationDeferred(ok) ==
    /\ scope.kind = "WithFileOperationClientV2"
    /\ scope.pc = "defer"
    /\ scope' = IF scope.ret = "nil"
                THEN LET r == focClose(scope, ok)
                     IN  [r.sc EXCEPT !.pc = "returned", !.ret = r.ret]
                ELSE [scope EXCEPT !.pc = "returned"]
    /\ UNCHANGED <<scopeVars, rn>>

WithFileOperationClientV2Next ==
    \/ \E ok \in BOOLEAN : FileOperationNew(ok)
    \/ \E ok \in BOOLEAN : FileOperationCallbackOp(ok)
    \/ \E err \in {"nil", "error"} : FileOperationCallbackReturns(err)
    \/ \E ok \in BOOLEAN : FileOperationDeferred(ok)

----------------------------------------------------------------------------
(* The scoped helpers, one call of one of them *)

ScopeInit ==
    /\ objects = [x \in {} |-> 0]
    /\ refs = {}
    /\ seq = 1
    /\ now = 0
    /\ call = NoCall
    /\ blobs = {}
    /\ mdstore = {}
    /\ clients = [c \in {} |-> 0]
    /\ gc = [pc |-> "returned", deleter |-> "other", queue |-> {}, cur |-> <<>>, n |-> 0]
    /\ runCancelled = FALSE
    /\ index = NoIndex
    /\ \/ scope = WithStringSet /\ rn = NewRenewer
       \/ scope = WithRenewer /\ rn = NewVeryGenericRenewer
       \/ scope = WithFileOperationClientV2 /\ rn = NewRenewer

\* the renewal task of the helper's renewer
ScopeTaskNext ==
    /\ scope.kind \in {"WithStringSet", "WithRenewer"}
    /\ RenewTaskNext

ScopeNext ==
    \/ ScopeTaskNext
    \/ ParentCancel
    \/ WithStringSetNext
    \/ WithRenewerNext
    \/ WithFileOperationClientV2Next

ScopeSpec ==
    /\ ScopeInit
    /\ [][ScopeNext]_vars
    /\ WF_vars(RenewCall)
    /\ WF_vars(\E res \in {"nil", "error", "Canceled"} : RenewReturn(res))
    /\ SF_vars(RenewSelectDone)
    /\ WF_vars(RenewExit)
    /\ WithStringSetFair
    /\ WithRenewerFair

----------------------------------------------------------------------------
(* The renewers of a set: renew.StringSet over renew.Renewer and
   fileset.Renewer over renewing.VeryGenericRenewer.  The renewFunc given to
   the generic renewer is a closure that locks the mutex of the set, calls
   the renew function for each element and unlocks when it returns.  In this
   part of the model the variable scope holds the set, its mutex, the
   closure's position and the caller of Add and Remove. *)

\* the strings given to Add and Remove
Elements == {"p", "q"}

\* NewStringSet: an empty set and an unlocked mutex; the renew function of
\* the elements is the one the caller gave
NewStringSet ==
    [kind |-> "StringSet", renew |-> "renewFunc", mu |-> "-", set |-> {},
     tick |-> "-", todo |-> {}, cur |-> "-", held |-> {}, renewed |-> {}, res |-> "-",
     caller |-> [pc |-> "-", op |-> "-", x |-> "-"]]

\* newRenewer: the struct literal sets paths only, so the field renew keeps
\* its zero value whatever function was passed
newRenewer == [NewStringSet EXCEPT !.kind = "Renewer", !.renew = "nil"]

\* sync.Mutex.Lock on a mutex that is not checked
MutexIgnored(sc) == TRUE

\* sync.Mutex.Lock returns when the mutex is unlocked
MutexUnlocked(sc) == sc.mu = "-"

\* the closure is called by renewLoop and locks the mutex: the range loop
\* will visit the elements the map holds now
SetRenewLock ==
    /\ rn.pc = "inCall"
    /\ scope.tick = "-"
    /\ MutexUnlocked(scope)
    /\ scope' = [scope EXCEPT !.mu = "tick", !.tick = "range", !.todo = scope.set,
                              !.held = scope.set, !.renewed = {}, !.res = "-"]
    /\ UNCHANGED <<scopeVars, rn>>

\* the range loop takes an element (in the order of the map, which is not
\* specified) and calls the renew function: a call of a nil function panics
SetRenewElement(x) ==
    /\ scope.tick = "range"
    /\ scope.cur = "-"
    /\ x \in scope.todo
    /\ scope' = IF scope.renew = "nil"
                THEN [scope EXCEPT !.tick = "panic", !.mu = "-"]
                ELSE [scope EXCEPT !.cur = x, !.todo = @ \ {x}]
    /\ UNCHANGED <<scopeVars, rn>>

\* the renew function of the element returns: an error is returned by the
\* closure
SetRenewElementReturns(res) ==
    /\ scope.cur # "-"
    /\ res \in RenewResults(rn)
    /\ scope' = IF res = "nil"
                THEN [scope EXCEPT !.cur = "-", !.renewed = @ \cup {scope.cur}]
                ELSE [scope EXCEPT !.cur = "-", !.tick = "return", !.res = res]
    /\ UNCHANGED <<scopeVars, rn>>

\* the closure returns, nil after the last element, and its deferred Unlock
\* runs; renewLoop goes on with what it returned
SetRenewReturn ==
    /\ \/ scope.tick = "range" /\ scope.cur = "-" /\ scope.todo = {}
       \/ scope.tick = "return"
    /\ LET res == IF scope.tick = "return" THEN scope.res ELSE "nil"
       IN  /\ rn' = AfterRenewFunc(rn, res)
           /\ scope' = [scope EXCEPT !.mu = "-", !.tick = "-", !.res = res]
    /\ UNCHANGED scopeVars

\* Add(x) or Remove(x) is called and reaches mu.Lock()
SetCall(op, x) ==
    /\ scope.caller.pc = "-"
    /\ scope' = [scope EXCEPT !.caller = [pc |-> "Lock", op |-> op, x |-> x]]
    /\ UNCHANGED <<scopeVars, rn>>

\* mu.Lock() of Add or Remove returns
SetCallLock ==
    /\ scope.caller.pc = "Lock"
    /\ MutexUnlocked(scope)
    /\ scope' = [scope EXCEPT !.mu = "caller", !.caller.pc = "locked"]
    /\ UNCHANGED <<scopeVars, rn>>

\* Add or Remove changes the map and returns through its deferred Unlock
SetCallReturn ==
    /\ scope.caller.pc = "locked"
    /\ scope' = [scope EXCEPT !.mu = "-",
                              !.set = IF scope.caller.op = "Add"
                                      THEN @ \cup {scope.caller.x}
                                      ELSE @ \ {scope.caller.x},
                              !.caller = [pc |-> "-", op |-> "-", x |-> "-"]]
    /\ UNCHANGED <<scopeVars, rn>>

SetRenewerInit ==
    /\ objects = [x \in {} |-> 0]
    /\ refs = {}
    /\ seq = 1
    /\ now = 0
    /\ call = NoCall
    /\ blobs = {}
    /\ mdstore = {}
    /\ clients = [c \in {} |-> 0]
    /\ gc = [pc |-> "returned", deleter |-> "other", queue |-> {}, cur |-> <<>>, n |-> 0]
    /\ runCancelled = FALSE
    /\ index = NoIndex
    /\ \/ scope = NewStringSet /\ rn = NewRenewer
       \/ scope = newRenewer /\ rn = NewVeryGenericRenewer

\* a panic of the renewal task ends the program
NoPanic == scope.tick # "panic"

SetRenewerNext ==
    \/ NoPanic /\ RenewCall
    \/ NoPanic /\ SetRenewLock
    \/ NoPanic /\ \E x \in Elements : SetRenewElement(x)
    \/ NoPanic /\ \E res \in {"nil", "error", "Canceled"} : SetRenewElementReturns(res)
    \/ NoPanic /\ SetRenewReturn
    \/ NoPanic /\ RenewSelectTick
    \/ NoPanic /\ RenewSelectDone
    \/ NoPanic /\ RenewExit
    \/ NoPanic /\ \E op \in {"Add", "Remove"}, x \in Elements : SetCall(op, x)
    \/ NoPanic /\ SetCallLock
    \/ NoPanic /\ SetCallReturn
    \/ NoPanic /\ \E k \in Closers : CloseCancel(k)
    \/ NoPanic /\ \E k \in Closers : CloseReturn(k)

SetRenewerSpec == SetRenewerInit /\ [][SetRenewerNext]_vars

----------------------------------------------------------------------------
(* The index tree: a writer that is given paths in increasing order and
   cuts each level's stream into chunks, and a reader that walks the tree
   under a prefix or a range filter *)

\* paths written to one index
MaxPaths == 3

\* levels of the tree that the writer's cuts can open before Close
MaxLevels == 2

\* the letters of the paths, in byte order
IndexLetters == <<"a", "b">>

\* the paths that can be written: one or two letters
IndexPaths ==
    {<<IndexLetters[i]>> : i \in DOMAIN IndexLetters}
       \cup {<<IndexLetters[i], IndexLetters[j]>> : i, j \in DOMAIN IndexLetters}

Ord(ch) == CHOOSE i \in DOMAIN IndexLetters : IndexLetters[i] = ch

\* s < t for strings: bytewise, a proper prefix comes first
RECURSIVE StrLess(_, _)
StrLess(s, t) ==
    IF t = <<>> THEN FALSE
    ELSE IF s = <<>> THEN TRUE
    ELSE IF Ord(Head(s)) # Ord(Head(t)) THEN Ord(Head(s)) < Ord(Head(t))
    ELSE StrLess(Tail(s), Tail(t))

StrLeq(s, t) == s = t \/ StrLess(s, t)

\* a leaf entry for a path
LeafEntry(path) == [leaf |-> TRUE, lower |-> path, upper |-> path, kids |-> <<>>]

\* the entry that stands for a chunk of entries in the level above: its
\* path range and the chunk
RangeEntry(chunk) ==
    [leaf |-> FALSE, lower |-> chunk[1].lower, upper |-> chunk[Len(chunk)].upper,
     kids |-> chunk]

\* the root of an index without entries
EmptyRoot == [leaf |-> FALSE, lower |-> <<>>, upper |-> <<>>, kids |-> <<>>]

\* the level's stream is emitted as a chunk and recorded in the level above
Emit(levels, l) ==
    LET up == IF l = Len(levels) THEN Append(levels, <<>>) ELSE levels
    IN  [up EXCEPT ![l] = <<>>, ![l + 1] = Append(@, RangeEntry(levels[l]))]

\* Close: every level is flushed upward; the only entry of the top level is
\* the root
RECURSIVE Flush(_, _)
Flush(levels, l) ==
    IF levels = <<>> THEN EmptyRoot
    ELSE IF l = Len(levels) /\ Len(levels[l]) = 1 THEN levels[l][1]
    ELSE IF levels[l] = <<>> THEN Flush(levels, l + 1)
    ELSE Flush(Emit(levels, l), l + 1)

\* a range that compares its upper end with the prefix strictly
PrefixIntersectsStrict(lower, upper, pre) ==
    /\ StrLess(pre, upper)
    /\ HasPrefix(lower, pre) \/ StrLeq(lower, pre)

\* [lower, upper] holds a string that starts with prefix
PrefixIntersects(lower, upper, pre) ==
    /\ StrLeq(pre, upper)
    /\ HasPrefix(lower, pre) \/ StrLeq(lower, pre)

\* a range that compares its lower end with the filter's upper end strictly
RangeIntersectsStrict(lower, upper, l, u) == StrLeq(l, upper) /\ StrLess(lower, u)

\* [lower, upper] overlaps [l, u]
RangeIntersects(lower, upper, l, u) == StrLeq(l, upper) /\ StrLeq(lower, u)

NoFilter == [kind |-> "none", prefix |-> <<>>, lower |-> <<>>, upper |-> <<>>]

\* WithPrefix(prefix)
WithPrefix(pre) == [NoFilter EXCEPT !.kind = "prefix", !.prefix = pre]

\* WithRange(pathRange)
WithRange(pr) == [NoFilter EXCEPT !.kind = "range", !.lower = pr.Lower, !.upper = pr.Upper]

\* the entry's paths can match the filter
Intersects(e, f) ==
    IF f.kind = "prefix" THEN PrefixIntersects(e.lower, e.upper, f.prefix)
    ELSE IF f.kind = "range" THEN RangeIntersects(e.lower, e.upper, f.lower, f.upper)
    ELSE TRUE

\* the path of a leaf matches the filter
Matches(path, f) ==
    IF f.kind = "prefix" THEN HasPrefix(path, f.prefix)
    ELSE IF f.kind = "range" THEN StrLeq(f.lower, path) /\ StrLeq(path, f.upper)
    ELSE TRUE

\* Iterate over a chunk's entries in order: a matching leaf is delivered, a
\* range is descended into when it intersects the filter
RECURSIVE Iterate(_, _)
Iterate(entries, f) ==
    IF entries = <<>> THEN <<>>
    ELSE LET e == Head(entries)
             here == IF e.leaf
                     THEN IF Matches(e.lower, f) THEN <<e.lower>> ELSE <<>>
                     ELSE IF Intersects(e, f) THEN Iterate(e.kids, f) ELSE <<>>
         IN  here \o Iterate(Tail(entries), f)

\* expectedFiles of the index test: the file names that start with prefix
RECURSIVE expectedFiles(_, _)
expectedFiles(fileNames, pre) ==
    IF fileNames = <<>> THEN <<>>
    ELSE (IF HasPrefix(Head(fileNames), pre) THEN <<Head(fileNames)>> ELSE <<>>)
            \o expectedFiles(Tail(fileNames), pre)

\* pathRange of the index test: from the first to the last file name
pathRange(fileNames) == [Lower |-> fileNames[1], Upper |-> fileNames[Len(fileNames)]]

\* the prefixes of a string, the empty one and the whole string included
Prefixes_(s) == {SubSeq(s, 1, n) : n \in 0..Len(s)}

\* NewWriter
NewWriter == [NewIndex EXCEPT !.pc = "writing"]

\* WriteIndex(idx): the entry joins the level-0 stream
WriteIndex(path) ==
    /\ index.pc = "writing"
    /\ Len(index.paths) < MaxPaths
    /\ IF index.paths = <<>> THEN TRUE
       ELSE StrLess(index.paths[Len(index.paths)], path)
    /\ index' = [index EXCEPT !.paths = Append(@, path),
                              !.levels = IF @ = <<>> THEN <<(<<LeafEntry(path)>>)>>
                                         ELSE [@ EXCEPT ![1] = Append(@, LeafEntry(path))]]
    /\ UNCHANGED <<trackerVars, now, call, sysVarsButIndex>>

\* the stream of level l has reached a split point
WriterSplit(l) ==
    /\ index.pc = "writing"
    /\ l \in DOMAIN index.levels
    /\ l <= MaxLevels
    /\ index.levels[l] # <<>>
    /\ index' = [index EXCEPT !.levels = Emit(@, l)]
    /\ UNCHANGED <<trackerVars, now, call, sysVarsButIndex>>

\* Writer.Close returns the top index
WriterClose ==
    /\ index.pc = "writing"
    /\ index' = [index EXCEPT !.pc = "closed", !.root = Flush(index.levels, 1),
                              !.levels = <<>>]
    /\ UNCHANGED <<trackerVars, now, call, sysVarsButIndex>>

\* NewReader(chunks, topIdx, opts...).Iterate: the paths given to cb.  The
\* model reads each index once.
ReaderIterate(f) ==
    /\ index.pc = "closed"
    /\ index' = [index EXCEPT !.pc = "iterated", !.filter = f,
                              !.out = Iterate(<<index.root>>, f)]
    /\ UNCHANGED <<trackerVars, now, call, sysVarsButIndex>>

\* the filters of the model: every prefix of a path that can be written and
\* every range between two such paths
IndexFilters ==
    {NoFilter}
      \cup {WithPrefix(p) : p \in UNION {Prefixes_(q) : q \in IndexPaths}}
      \cup {WithRange([Lower |-> l, Upper |-> u]) : l, u \in IndexPaths}

IndexInit ==
    /\ objects = [x \in {} |-> 0]
    /\ refs = {}
    /\ seq = 1
    /\ now = 0
    /\ call = NoCall
    /\ blobs = {}
    /\ mdstore = {}
    /\ clients = [c \in {} |-> 0]
    /\ gc = [pc |-> "returned", deleter |-> "other", queue |-> {}, cur |-> <<>>, n |-> 0]
    /\ runCancelled = FALSE
    /\ rn = NoRenewer
    /\ scope = NoScope
    /\ index = NewWriter

IndexNext ==
    \/ \E path \in IndexPaths : WriteIndex(path)
    \/ \E l \in 1..MaxLevels : WriterSplit(l)
    \/ WriterClose
    \/ \E f \in IndexFilters : ReaderIterate(f)

IndexSpec == IndexInit /\ [][IndexNext]_vars

----------------------------------------------------------------------------
(* Properties of the tracker *)

Rows == DOMAIN objects
Live(o) == o \in Rows /\ ~objects[o].tombstone
PointsTo(f, o) == <<objects[f].int_id, objects[o].int_id>> \in refs

\* C1: deletion safety: no row with tombstone = true has an inbound edge from
\* a row with tombstone = false.
DeletionSafety ==
    \A o \in Rows : objects[o].tombstone =>
        ~ \E f \in Rows : Live(f) /\ PointsTo(f, o)

\* C2: no dangling reference: every edge of tracker_refs held by an existing
\* row points to a row that still exists.
NoDanglingRef ==
    \A f \in Rows : \A e \in refs :
        e[1] = objects[f].int_id => \E o \in Rows : objects[o].int_id = e[2]

\* C8: tombstone monotonicity: the tombstone flag of a row never goes from
\* true back to false while the row exists, and it goes from false to true
\* only in a MarkTombstone call made when the row has no inbound edge.
TombstoneMonotone ==
    [][\A o \in Rows \cap DOMAIN objects' :
          objects'[o].int_id = objects[o].int_id =>
              /\ objects[o].tombstone => objects'[o].tombstone
              /\ (~objects[o].tombstone /\ objects'[o].tombstone) =>
                    /\ call'.op = "MarkTombstone" /\ call'.id = o
                    /\ Inbound(DB, o) = {}]_vars

\* C9: FinishDelete on an existing row whose tombstone flag is false returns
\* ErrNotTombstone.
FinishDeleteReportsNotTombstone ==
    [][\A id \in Ids :
          (CallFinishDelete(id, TRUE) /\ Live(id)) => call'.ret = "ErrNotTombstone"]_vars

\* C10: FinishDelete on a row whose tombstone flag is false leaves every row
\* and every edge as before the call; FinishDelete on an absent id changes
\* nothing and returns nil.
FinishDeleteKeepsLiveRows ==
    [][(call'.op = "FinishDelete" /\ (call'.id \notin Rows \/ Live(call'.id))) =>
          /\ objects' = objects
          /\ refs' = refs
          /\ (call'.id \notin Rows => call'.ret = "nil")]_vars

\* a FinishDelete has just been refused on a row that is not tombstoned and
\* that has an outbound edge
FinishDeleteKeepsLiveRowsWitness ==
    /\ call.op = "FinishDelete"
    /\ Live(call.id)
    /\ \E e \in refs : e[1] = objects[call.id].int_id

\* C11: when FinishDelete removes a row, no edge that leaves the removed row
\* is left in tracker_refs.
FinishDeleteRemovesOutbound ==
    [][(call'.op = "FinishDelete" /\ call'.id \in Rows /\ call'.id \notin DOMAIN objects') =>
          \A e \in refs' : e[1] # objects[call'.id].int_id]_vars

\* C12: a CreateObject call that returns nil leaves a new row with tombstone
\* false and expires_at = now + ttl (null when ttl is not positive), whose
\* outbound edges are exactly the edges to the ids of pointsTo, and changes no
\* other row and no other edge.
CreateObjectEffect ==
    [][(call'.op = "CreateObject" /\ call'.ret = "nil") =>
          LET id == call'.id
              targets == Range(call'.pointsTo)
          IN  /\ id \notin Rows
              /\ DOMAIN objects' = Rows \cup {id}
              /\ \A o \in Rows : objects'[o] = objects[o]
              /\ ~objects'[id].tombstone
              /\ objects'[id].expires_at = IF call'.ttl > 0 THEN now + call'.ttl ELSE NULL
              /\ \A o \in Rows : objects[o].int_id # objects'[id].int_id
              /\ targets \subseteq Rows
              /\ refs' \ refs = {<<objects'[id].int_id, objects[t].int_id>> : t \in targets}
              /\ refs \subseteq refs'
              /\ \A e \in refs : e[1] # objects'[id].int_id]_vars

\* a CreateObject with a positive ttl and a target has just returned nil
CreateObjectEffectWitness ==
    /\ call.op = "CreateObject"
    /\ call.ret = "nil"
    /\ call.pointsTo # <<>>
    /\ call.ttl > 0

\* C13: a CreateObject call that returns an error leaves every row and every
\* edge of the tracker as before the call.
CreateObjectErrorKeepsAll ==
    [][(call'.op = "CreateObject" /\ call'.ret # "nil") =>
          /\ objects' = objects
          /\ refs' = refs]_vars

\* a CreateObject of a new id has just returned ErrDanglingRef, after its
\* transaction had inserted the row
CreateObjectErrorKeepsAllWitness ==
    /\ call.op = "CreateObject"
    /\ call.ret = "ErrDanglingRef"
    /\ call.id \notin Rows
    /\ Rows # {}

\* C14: with the database available, a CreateObject of a new id that is not
\* in pointsTo returns ErrDanglingRef exactly when some id of pointsTo has no
\* row, and returns nil when every id of pointsTo has a row, whatever the
\* list (an id may be listed more than once).
DanglingRefExactly ==
    [][(/\ call'.op = "CreateObject"
        /\ call'.ret # "error"
        /\ call'.id \notin Rows
        /\ call'.id \notin Range(call'.pointsTo)) =>
          LET missing == \E t \in Range(call'.pointsTo) : t \notin Rows
          IN  /\ call'.ret = "ErrDanglingRef" <=> missing
              /\ ~missing => call'.ret = "nil"]_vars

\* C15: with the database available, MarkTombstone(id) on an absent row
\* returns nil; on a row that no row points to it sets tombstone = true and
\* returns nil; on a row that some row points to it returns ErrDanglingRef and
\* leaves tombstone = false; it changes no other row and no edge.
MarkTombstoneCases ==
    [][(call'.op = "MarkTombstone" /\ call'.ret # "error") =>
          LET id == call'.id
          IN  /\ refs' = refs
              /\ DOMAIN objects' = Rows
              /\ \A o \in Rows \ {id} : objects'[o] = objects[o]
              /\ id \notin Rows => call'.ret = "nil"
              /\ id \in Rows =>
                    /\ objects'[id] = [objects[id] EXCEPT !.tombstone = objects'[id].tombstone]
                    /\ IF \E f \in Rows : PointsTo(f, id)
                       THEN call'.ret = "ErrDanglingRef" /\ ~objects'[id].tombstone
                       ELSE call'.ret = "nil" /\ objects'[id].tombstone]_vars

\* C16: IterateDeletable gives its callback exactly the rows that no edge
\* points to and that are tombstoned or have a non-null expires_at not later
\* than now.
IterateDeletableYields ==
    (call.op = "IterateDeletable" /\ call.ret = "nil") =>
        call.rows = {o \in Rows :
                        /\ \A e \in refs : e[2] # objects[o].int_id
                        /\ \/ objects[o].tombstone
                           \/ objects[o].expires_at # NULL /\ objects[o].expires_at <= now}

\* IterateDeletable has just yielded a row and has passed over a row that
\* never expires
IterateDeletableYieldsWitness ==
    /\ call.op = "IterateDeletable"
    /\ call.rows # {}
    /\ \E o \in Rows \ call.rows :
          /\ objects[o].expires_at = NULL
          /\ \A e \in refs : e[2] # objects[o].int_id

\* C17: with the database available, SetTTLPrefix(prefix, ttl) sets expires_at
\* to now + ttl on exactly the rows whose str_id starts with the string
\* prefix, and changes nothing else of any row and no edge.
SetTTLPrefixFrame ==
    [][(call'.op = "SetTTLPrefix" /\ call'.ret # "error") =>
          /\ refs' = refs
          /\ DOMAIN objects' = Rows
          /\ \A o \in Rows :
                objects'[o] = IF HasPrefix(o, call'.id)
                              THEN [objects[o] EXCEPT !.expires_at = now + call'.ttl]
                              ELSE objects[o]]_vars

----------------------------------------------------------------------------
(* Properties of the storage layer *)

ChunkRow == ChunkObjectID(ChunkA)
Blob == chunkPath(ChunkA)
Expired(o) == objects[o].expires_at # NULL /\ objects[o].expires_at <= now

\* the CreateObject step of c's Create has succeeded and c's renewer is open
PastCreateObject(c) ==
    /\ \/ clients[c].pc \in {"Add", "Exists", "Set", "Write"}
       \/ clients[c].pc = "done" /\ clients[c].n > 0
    /\ clients[c].renewer # "closed"

\* C3: once the CreateObject step of a client's Create has succeeded, and
\* while that client's renewer is open, no step of the collector removes the
\* chunk's tracker row.
ChunkRowKept ==
    [][\A c \in Clients :
          (PastCreateObject(c) /\ ChunkRow \in Rows) => ChunkRow \in DOMAIN objects']_vars

\* neither a Create call nor a deleteObject run is in progress
Quiescent ==
    /\ \A c \in Clients : clients[c].pc \in {"idle", "done", "closed"}
    /\ gc.pc \notin {"Delete", "FinishDelete"}

Reclaimable ==
    /\ Blob \in blobs
    /\ ChunkRow \in Rows
    /\ Expired(ChunkRow)
    /\ ~ \E f \in Rows : PointsTo(f, ChunkRow)
    /\ \A c \in Clients : clients[c].pc = "closed"

\* C5: liveness of reclamation: a chunk whose blob is stored and whose tracker
\* row is expired and has no inbound edge is eventually deleted, blob and row,
\* by a collector that runs with the storage layer's deleter, for as long as
\* its Run has not returned.
Reclamation ==
    Reclaimable ~> ((Blob \notin blobs /\ ChunkRow \notin Rows) \/ gc.pc = "returned")

\* C6: Run returns only after the context passed to it has been cancelled.
RunReturnsOnlyWhenCancelled == gc.pc = "returned" => runCancelled

\* C7: a CreateObject that points to id, made after the collector's
\* MarkTombstone(id) has succeeded and before its FinishDelete(id), fails and
\* creates neither its row nor an edge to id.
TieBreak ==
    [][\A c \in Clients : \A ok \in BOOLEAN :
          (/\ gc.pc \in {"Delete", "FinishDelete"}
           /\ gc.cur = ChunkRow
           /\ ClientAdd(c, ok)) =>
              /\ clients'[c].pc = "done"
              /\ PinID(c, clients[c].n) \notin DOMAIN objects'
              /\ refs' = refs]_vars

\* C18: of two Create calls of two clients on the same bytes, both return the
\* chunk id and exactly one writes the blob: a client's write of the blob
\* completes only when no blob is stored at the chunk's key yet.
OneBlobWriter ==
    [][\A c \in Clients :
          (/\ clients[c].pc = "Write"
           /\ clients'[c].pc = "done"
           /\ clients'[c].ret = "ok") => Blob \notin blobs]_vars

----------------------------------------------------------------------------
(* Properties of the generic renewer *)

\* C19: once a renewFunc call has returned an error that is not a
\* cancellation, renewFunc is not called again and every Close that starts
\* later returns that error; while no such error has occurred, Close
\* returns nil.
CloseSurfacesError ==
    /\ rn.failed => rn.pc \in {"defer", "exited"}
    /\ \A k \in Closers :
          rn.close[k].pc = "returned" =>
             /\ rn.close[k].afterFail => rn.close[k].ret = "error"
             /\ ~rn.failed => rn.close[k].ret = "nil"

\* C20: a Close returns only after the background task has exited, all
\* Close calls return the same result, the context stays cancelled from the
\* first Close on, and every Close that has started returns.
CloseWaitsForTask ==
    /\ [](\A k \in Closers :
            /\ rn.close[k].pc = "returned" => rn.pc = "exited"
            /\ rn.close[k].pc # "idle" => rn.cancelled)
    /\ [](Cardinality(rn.results) <= 1)
    /\ \A k \in Closers : (rn.close[k].pc = "waiting") ~> (rn.close[k].pc = "returned")

\* both callers have had a Close return, one of them is in a second Close,
\* and the task had renewed more than once before it was cancelled
CloseWaitsForTaskWitness ==
    /\ rn.ticks > 0
    /\ rn.results # {}
    /\ \E k \in Closers : rn.close[k].pc = "waiting"
    /\ \E k \in Closers : rn.close[k].pc = "returned"

\* C21: the task calls renewFunc right after construction, before any tick,
\* and then once per tick: the calls started are one more than the ticks
\* taken; at most one call is in progress; from the head of the loop the
\* task does nothing but call renewFunc, and it does.
RenewOncePerTick ==
    /\ [](/\ rn.pc = "loop" => rn.calls = rn.ticks
          /\ rn.pc \in {"inCall", "select"} => rn.calls = rn.ticks + 1
          /\ rn.inflight <= 1
          /\ rn.inflight = 1 <=> rn.pc = "inCall")
    /\ [][(rn.pc = "loop" /\ rn'.pc # "loop") => rn'.pc = "inCall"]_vars
    /\ (rn.pc = "loop") ~> (rn.pc = "inCall")

\* the task is in its third call, after two ticks, and nobody has closed
RenewOncePerTickWitness ==
    /\ rn.pc = "inCall"
    /\ rn.calls = 3
    /\ rn.ticks = 2
    /\ ~rn.cancelled

----------------------------------------------------------------------------
(* Properties of the prefix renewer and of the scoped helpers *)

\* the pinning objects made by Add of client c's renewer
Pins(c, objs) == {o \in DOMAIN objs : HasPrefix(o, RenewerID(c) \o <<"/">>)}

\* C22: with the tracker reachable, the first renewal call of a prefix
\* renewer leaves its task running, whether or not Add has been called, and
\* a tick with the tracker reachable keeps every running task running and
\* sets expires_at of each of its pinning objects to the time of the tick
\* plus the ttl.
PrefixRenewerKeepsPins ==
    [][/\ \A c \in Clients : RenewFirst(c, TRUE) => clients'[c].renewer = "running"
       /\ SysTick([c \in Clients |-> TRUE]) =>
             \A c \in Clients :
                clients[c].renewer = "running" =>
                   /\ clients'[c].renewer = "running"
                   /\ \A o \in Pins(c, objects') :
                         objects'[o].expires_at = now' + defaultChunkTTL]_vars

\* C23: WithStringSet has returned only when the renewal task of its
\* StringSet has exited, whatever the callback returned and whether or not
\* the parent context was cancelled; and when the parent context is
\* cancelled while the callback runs, the callback's context gets cancelled.
WithStringSetReleases ==
    /\ []((scope.kind = "WithStringSet" /\ scope.pc = "returned") =>
             (rn.pc = "exited" /\ rn.done /\ rn.cancelled))
    /\ (scope.kind = "WithStringSet" /\ scope.parent /\ scope.pc = "cb")
          ~> (StringSetContextDone \/ scope.pc # "cb")

\* WithStringSet has returned the callback's error after the parent context
\* was cancelled and the watching goroutine closed the StringSet
WithStringSetReleasesWitness ==
    /\ scope.kind = "WithStringSet"
    /\ scope.pc = "returned"
    /\ scope.ret = "error"
    /\ scope.parent
    /\ scope.watch = "exit"
    /\ rn.close["y"].pc = "returned"
    /\ rn.calls > 1

FileOperationClientClosed ==
    (scope.kind = "WithFileOperationClientV2" /\ scope.pc = "returned"
        /\ scope.stream # "none") => scope.closed

----------------------------------------------------------------------------
(* Properties of the collector's passes *)

\* C26: a pass ends only when every row that IterateDeletable yielded has
\* been attempted, a failed attempt takes nothing but its own row from the
\* rows still to visit, and an attempt is counted in n only when it has
\* deleted its row.
GCPassContinues ==
    [][/\ (gc.pc = "iterate" /\ gc'.pc \in {"select", "runOnce"}) => gc.queue = {}
       /\ (gc.pc \in {"iterate", "Delete", "FinishDelete"} /\ gc'.pc = "iterate"
             /\ gc' # gc) => gc'.queue = gc.queue \ {gc'.cur}
       /\ gc'.n = gc.n + 1 => gc.cur \notin DOMAIN objects']_vars

\* C29: the collector calls the deleter for an object only right after
\* MarkTombstone has returned nil for it in the same attempt, which it does
\* only if the object has no inbound edge, and calls FinishDelete for it only
\* after the deleter has returned nil; nothing else removes a blob or a row.
GCProtocolOrder ==
    [][/\ (gc'.pc = "Delete" /\ gc' # gc) =>
             /\ gc.pc = "iterate"
             /\ gc'.cur \in gc.queue
             /\ MarkTombstone(DB, gc'.cur, TRUE).ret = "nil"
             /\ gc'.cur \in Rows => Inbound(DB, gc'.cur) = {}
       /\ (gc'.pc = "FinishDelete" /\ gc' # gc) => (gc.pc = "Delete" /\ gc'.cur = gc.cur)
       /\ ~(blobs \subseteq blobs') => gc.pc = "Delete"
       /\ ~(Rows \subseteq DOMAIN objects') => gc.pc = "FinishDelete"]_vars

\* the collector is about to call FinishDelete for the chunk row, which it
\* has tombstoned, after the deleter returned nil
GCProtocolOrderWitness ==
    /\ gc.pc = "FinishDelete"
    /\ gc.cur = ChunkRow
    /\ ChunkRow \in Rows
    /\ objects[ChunkRow].tombstone

\* C30: runUntilEmpty starts another pass only after a pass that counted a
\* deletion, and every counted deletion takes a row from the tracker; so,
\* with nothing created meanwhile, every pass that goes on to another has
\* reduced the rows, and a pass in which no deletion succeeded ends the
\* drain.
GCDrainProgress ==
    [][/\ (gc.pc = "iterate" /\ gc'.pc = "runOnce") => gc.n > 0
       /\ (gc.pc = "iterate" /\ gc'.pc = "select") => gc.n = 0
       /\ gc'.n = gc.n + 1 =>
             Cardinality(DOMAIN objects') < Cardinality(DOMAIN objects)]_vars

----------------------------------------------------------------------------
(* Properties of the index tree *)

IterateRange ==
    (index.pc = "iterated" /\ index.filter.kind = "range") =>
        \A i, j \in DOMAIN index.paths :
           (i <= j /\ index.filter = WithRange(pathRange(SubSeq(index.paths, i, j))))
              => index.out = SubSeq(index.paths, i, j)

\* three paths in a tree of two levels of chunks, read with the range of
\* the last two
IterateRangeWitness ==
    /\ index.pc = "iterated"
    /\ index.filter.kind = "range"
    /\ Len(index.paths) = 3
    /\ index.filter = WithRange(pathRange(SubSeq(index.paths, 2, 3)))
    /\ Len(index.out) = 2
    /\ ~index.root.leaf
    /\ ~index.root.kids[1].leaf
    /\ Len(index.root.kids) > 1

----------------------------------------------------------------------------
(* Properties of the collector's retries *)

\* a row that the collector has tombstoned and then left: with the deleter of
\* the chunk storage deleteObject never gets past the deleter, so such a row
\* is one whose deleter failed after MarkTombstone succeeded
LeftTombstoned(o) ==
    /\ gc.deleter = "chunk"
    /\ o \in Rows
    /\ objects[o].tombstone
    /\ ~(gc.pc = "Delete" /\ gc.cur = o)

\* C31: an object whose deleter failed after MarkTombstone succeeded keeps
\* its row with tombstone = true; while no edge points to it IterateDeletable
\* yields it whatever its expires_at is, and the collector, unless the
\* context of its Run was cancelled, is still running to attempt it again.
FailedDeleteRetried ==
    /\ [][(gc.pc = "Delete" /\ gc'.pc = "iterate") =>
             (gc.cur \in DOMAIN objects' /\ objects'[gc.cur].tombstone)]_vars
    /\ [](\A o \in Rows :
             (LeftTombstoned(o) /\ Inbound(DB, o) = {}) =>
                 /\ o \in IterateDeletable(DB, now)
                 /\ gc.pc = "returned" => runCancelled)

----------------------------------------------------------------------------
(* Properties of Client.Create and of the chunk deleter *)

\* the statements of Client.Create in program order: from each, the ones
\* that can come next
CreateSteps ==
    {<<"idle", "Add">>, <<"Add", "Exists">>, <<"Exists", "Set">>,
     <<"Set", "Write">>, <<"Write", "done">>}

\* the return statements of Client.Create before the last one
CreateReturns ==
    {<<"idle", "done">>, <<"Add", "done">>, <<"Exists", "done">>, <<"Set", "done">>}

\* C32: every Create goes through tracker.CreateObject, renewer.Add, the
\* Exists check, the metadata Set and the blob write in this order, and
\* metadata and blob are written only by a Create whose renewer.Add has
\* created the pinning object that points to the chunk.
CreateOrder ==
    [][/\ \A c \in Clients :
             LET pc == clients[c].pc
                 pc1 == clients'[c].pc
                 pin == PinID(c, clients[c].n)
             IN  /\ (pc1 # pc /\ pc1 # "closed") =>
                       <<pc, pc1>> \in CreateSteps \cup CreateReturns
                 /\ (pc = "idle" /\ pc1 = "Add") => ChunkRow \in DOMAIN objects'
                 /\ (pc = "Add" /\ pc1 = "Exists") =>
                       /\ pin \notin Rows
                       /\ pin \in DOMAIN objects'
                       /\ <<objects'[pin].int_id, objects'[ChunkRow].int_id>> \in refs'
                 /\ (pc1 # pc /\ pc \in {"idle", "Add", "Exists"}) =>
                       (mdstore' = mdstore /\ blobs' = blobs)
       /\ ~(mdstore' \subseteq mdstore) =>
             \E d \in Clients : clients[d].pc = "Set" /\ clients'[d].pc = "Write"
       /\ ~(blobs' \subseteq blobs) =>
             \E d \in Clients : clients[d].pc = "Write" /\ clients'[d].pc = "done"]_vars

\* a Create has gone through all its steps and has written the metadata and
\* the blob under its pinning object
CreateOrderWitness ==
    \E c \in Clients :
        /\ clients[c].pc = "done"
        /\ clients[c].ret = "ok"
        /\ clients[c].n = 1
        /\ PinID(c, 0) \in Rows
        /\ ChunkA \in mdstore
        /\ Blob \in blobs
        /\ \A d \in Clients \ {c} : clients[d].pc = "idle"

\* C33: Create goes on to renewer.Add when CreateObject returns nil or
\* ErrObjectExists; on any other error of CreateObject and on any error of
\* renewer.Add it returns the error, and when the blob is already stored it
\* returns the chunk ID; in these three cases it writes neither metadata nor
\* blob.
CreateErrorsAndFastPath ==
    [][\A c \in Clients :
          LET cl == clients[c]
              cl1 == clients'[c]
              stopped == cl1.pc = "done" /\ mdstore' = mdstore /\ blobs' = blobs
          IN  /\ \A md \in MDs, ok \in BOOLEAN :
                    ClientCreateObject(c, md, ok) =>
                       LET pointsTo == [i \in DOMAIN md |-> ChunkObjectID(md[i])]
                           ret == CreateObject(DB, now, ChunkRow, pointsTo,
                                               defaultChunkTTL, ok).ret
                       IN  IF ret \in {"nil", "ErrObjectExists"}
                           THEN cl1.pc = "Add" /\ cl1.ret = "-"
                           ELSE stopped /\ cl1.ret = "error"
              /\ \A ok \in BOOLEAN :
                    ClientAdd(c, ok) =>
                       LET ret == CreateObject(DB, now, PinID(c, cl.n), <<ChunkRow>>,
                                               defaultChunkTTL, ok).ret
                       IN  IF ret = "nil"
                           THEN cl1.pc = "Exists" /\ cl1.ret = "-"
                           ELSE stopped /\ cl1.ret = "error"
              /\ (cl.pc = "Exists" /\ cl1.pc # "Exists") =>
                    IF Blob \in blobs
                    THEN stopped /\ cl1.ret = "ok"
                    ELSE cl1.pc = "Set"]_vars

\* two Creates of the same chunk have returned its ID over one tracker row
\* that only the first of them inserted
CreateErrorsAndFastPathWitness ==
    /\ \A c \in Clients : clients[c].pc = "done" /\ clients[c].ret = "ok"
    /\ ChunkRow \in Rows
    /\ objects[ChunkRow].int_id = 1
    /\ seq = 4
    /\ gc.pc = "runOnce"

\* C34: metadata outlives the blob: whatever the interleaving of Create calls
\* and of Delete calls of the chunk deleter on a chunk, the metadata record
\* of the chunk exists whenever its blob exists.
MetadataOutlivesBlob == Blob \in blobs => ChunkA \in mdstore

\* C35: Delete called with the tracker id of a chunk, ChunkObjectID(c), goes
\* on to delete the blob at chunkPath(c), then the metadata record of c, and
\* returns nil when both stores have done so.
DeleteTakesChunkObjectID ==
    [][/\ (gc.pc \in {"idle", "returned"} /\ gc' # gc /\ gc'.id = ChunkObjectID(ChunkA)) =>
             (gc'.pc = "objc.Delete" /\ gc'.chunkID = ChunkA)
       /\ (gc.pc = "objc.Delete" /\ gc'.pc = "mdstore.Delete") =>
             (chunkPath(gc.chunkID) \notin blobs' /\ mdstore' = mdstore)
       /\ (gc.pc = "mdstore.Delete" /\ gc'.ret = "nil") =>
             (gc.chunkID \notin mdstore' /\ blobs' = blobs)]_vars

----------------------------------------------------------------------------
(* Properties of the renewers' retries, mutex and context *)

\* C36: a renewFunc call that fails for a reason other than cancellation
\* does not end the renewal task: the task goes on to wait for the next tick,
\* on which it calls renewFunc again.
RenewRetriedAfterFailure ==
    [][(rn.pc = "inCall" /\ rn'.pc # "inCall" /\ rn'.failed) => rn'.pc = "select"]_vars

\* C37: in a StringSet the tick and Add or Remove exclude each other: while
\* the tick runs the set stays the one it found when it took the mutex; the
\* tick renews these elements one at a time; when it returns nil it has
\* renewed all of them, and when an element fails it returns at once, the
\* elements not yet visited stay unrenewed and the renewal task ends.
StringSetTick ==
    /\ [](scope.kind = "StringSet" =>
            /\ scope.tick # "-" => (scope.mu = "tick" /\ scope.set = scope.held)
            /\ scope.caller.pc = "locked" => (scope.mu = "caller" /\ scope.tick = "-")
            /\ scope.tick = "range" =>
                  LET cur == IF scope.cur = "-" THEN {} ELSE {scope.cur}
                  IN  /\ scope.held = scope.renewed \cup cur \cup scope.todo
                      /\ scope.renewed \cap scope.todo = {}
                      /\ cur \cap (scope.renewed \cup scope.todo) = {}
            /\ scope.tick = "return" =>
                  /\ scope.renewed \cup scope.todo \subseteq scope.held
                  /\ Cardinality(scope.renewed \cup scope.todo) = Cardinality(scope.held) - 1)
    /\ [][(scope.kind = "StringSet" /\ scope.tick # "-" /\ scope'.tick = "-") =>
             IF scope.tick = "range"
             THEN scope.renewed = scope.set /\ rn'.pc = "select"
             ELSE scope'.res # "nil" /\ rn'.pc = "defer" /\ rn'.retErr = scope'.res]_vars
    /\ [][(scope.kind = "StringSet" /\ scope'.cur # scope.cur) =>
             (scope.tick = "range" /\ scope.mu = "tick")]_vars

\* in its second tick a StringSet of two elements has had the renewal of
\* the first element it took fail, with the other one not visited, while a
\* caller of Add or Remove waits for the mutex
StringSetTickWitness ==
    /\ scope.kind = "StringSet"
    /\ scope.tick = "return"
    /\ scope.held = Elements
    /\ scope.todo # {}
    /\ scope.caller.pc = "Lock"
    /\ rn.ticks = 1

\* C38: no lock is held across I/O: while a renew call of an element is in
\* progress the tick does not hold the mutex of the set, so a caller of Add
\* or Remove is not kept waiting by it.
NoLockAcrossRenew ==
    scope.cur # "-" =>
        /\ scope.mu # "tick"
        /\ scope.caller.pc = "Lock" => MutexUnlocked(scope)

\* C40: in the renewer made by fileset.WithRenewer a tick that finds paths in
\* the set calls the renew function given to WithRenewer for each of them:
\* the range loop's next path becomes the argument of a renew call, and a
\* tick that returns nil has renewed every path of the set.
PathsRenewed ==
    [][scope.kind = "Renewer" =>
          /\ (scope.tick = "range" /\ scope' # scope /\ scope'.todo # scope.todo) =>
                (scope'.cur \in scope.todo /\ scope'.tick = "range")
          /\ (scope.tick = "range" /\ scope'.tick = "-") =>
                (scope.renewed = scope.set /\ rn'.pc = "select")
          /\ scope'.tick # "panic"]_vars

\* C39: the context that renew.Renewer.Context() returns is cancelled only
\* when Close has been called or the renewal task has exited; it is
\* cancelled from the first call of Close on and once the task has exited,
\* and a renewFunc error that stops the task leads to its cancellation.
ContextLifetime ==
    /\ [](rn.pkg = "renew" =>
            LET closeCalled == \E k \in Closers : rn.close[k].pc # "idle"
            IN  /\ rn.cancelled => (closeCalled \/ rn.pc = "exited")
                /\ closeCalled => rn.cancelled
                /\ rn.pc = "exited" => rn.cancelled)
    /\ (rn.pkg = "renew" /\ rn.failed) ~> rn.cancelled

\* the renewal task of a renew.Renewer has exited on a renewFunc error after
\* a tick, its context is cancelled and Close has not been called
ContextLifetimeWitness ==
    /\ rn.pkg = "renew"
    /\ rn.failed
    /\ rn.pc = "exited"
    /\ rn.ticks > 0
    /\ rn.cancelled
    /\ \A k \in Closers : rn.close[k].pc = "idle"

====
